---- MODULE Spec2Model ----
(***************************************************************************)
(* Conversation flow engine of botbuddy: the branch store with its         *)
(* suggestion/commit protocol (branches_manager.py), the interruption      *)
(* engine (interruption_handler.py) and the turn controller                *)
(* (conversation_flow_controller.py, agent.py).                            *)
(*                                                                         *)
(* Python values are modelled as follows.  A dict is an insertion-ordered  *)
(* sequence of <<key, value>> pairs (iteration order is observable in the  *)
(* code: the calledWhen rewrite stops at the first branch whose intent     *)
(* matches).  A key that is missing from a dict is the sentinel Absent,    *)
(* the value None is the sentinel Null.                                    *)
(***************************************************************************)
EXTENDS Integers, Sequences, FiniteSets, TLC

Absent == "<absent>"
Null == "<none>"

\* ------------------------------------------------------------------------
\* Python dict
\* ------------------------------------------------------------------------
Keys(d) == {d[i][1] : i \in DOMAIN d}

Has(d, k) == \E i \in DOMAIN d : d[i][1] = k

Pos(d, k) == CHOOSE i \in DOMAIN d : d[i][1] = k

Get(d, k) == d[Pos(d, k)][2]

\* d[k] = v: an existing key keeps its place, a new key goes last
Put(d, k, v) ==
  IF Has(d, k) THEN [d EXCEPT ![Pos(d, k)] = <<k, v>>] ELSE Append(d, <<k, v>>)

\* del d[k]
Del(d, k) == SelectSeq(d, LAMBDA p : p[1] # k)

\* ------------------------------------------------------------------------
\* Bounds of the model
\* ------------------------------------------------------------------------
\* longest pending log the proposals may build
MaxLog == 3
\* longest index list handed to apply_suggestions
MaxIdx == 2
MaxIndex == 1

\* ------------------------------------------------------------------------
\* Python str: a sequence of one-character strings
\* ------------------------------------------------------------------------
Uppers ==
  <<"A", "B", "C", "D", "E", "F", "G", "H", "I", "J", "K", "L", "M",
    "N", "O", "P", "Q", "R", "S", "T", "U", "V", "W", "X", "Y", "Z">>
Lowers ==
  <<"a", "b", "c", "d", "e", "f", "g", "h", "i", "j", "k", "l", "m",
    "n", "o", "p", "q", "r", "s", "t", "u", "v", "w", "x", "y", "z">>
Digits == {"0", "1", "2", "3", "4", "5", "6", "7", "8", "9"}
Spaces == {" "}

LowerChar(c) ==
  IF \E i \in DOMAIN Uppers : Uppers[i] = c
  THEN Lowers[CHOOSE i \in DOMAIN Uppers : Uppers[i] = c]
  ELSE c

\* s.lower()
Lower(s) == SubSeq([i \in DOMAIN s |-> LowerChar(s[i])], 1, Len(s))

\* s.strip()
RECURSIVE LStrip(_)
LStrip(s) == IF s # <<>> /\ Head(s) \in Spaces THEN LStrip(Tail(s)) ELSE s

RECURSIVE RStrip(_)
RStrip(s) ==
  IF s # <<>> /\ s[Len(s)] \in Spaces THEN RStrip(SubSeq(s, 1, Len(s) - 1)) ELSE s

Strip(s) == RStrip(LStrip(s))

\* k in s
Contains(s, k) ==
  \E i \in 1..(Len(s) - Len(k) + 1) : SubSeq(s, i, i + Len(k) - 1) = k

\* any(k in s for k in ks)
ContainsAny(s, ks) == \E j \in DOMAIN ks : Contains(s, ks[j])

\* s at position i (from 1) starts with k
StartsAt(s, i, k) == i + Len(k) - 1 <= Len(s) /\ SubSeq(s, i, i + Len(k) - 1) = k

\* ------------------------------------------------------------------------
\* Branches, rules and suggestion operations
\* ------------------------------------------------------------------------
\* an expected-response rule {"next": .., "response": .., "keywords": [..]}
Rule(next, response, kw) == [next |-> next, response |-> response, kw |-> kw]

\* a branch {"intent", "bot_prompt", "expected_user_responses", "action"}
Branch(intent, prompt, hasEur, eur, action) ==
  [intent |-> intent, prompt |-> prompt, hasEur |-> hasEur, eur |-> eur,
   action |-> action]

\* one called_when entry; bad = TRUE is an entry that is not a JSON object
\* (the generator's payload is not validated), on which .get raises
CwEntry(pi, pr, ror) == [bad |-> FALSE, pi |-> pi, pr |-> pr, ror |-> ror]
CwBadEntry == [bad |-> TRUE, pi |-> Null, pr |-> Null, ror |-> Null]

\* a pending operation {"operation_type", "data"}; for an update the fields
\* that the payload does not carry are Absent
Op(type, name, intent, prompt, hasEur, eur, action, hasCw, cw) ==
  [type |-> type, name |-> name, intent |-> intent, prompt |-> prompt,
   hasEur |-> hasEur, eur |-> eur, action |-> action, hasCw |-> hasCw,
   cw |-> cw]

VARIABLES
  branches,      \* BranchesManager.branches of the store in use
  suggestions,   \* BranchesManager.suggestions["pending_operations"]
  fileB,         \* the branch document (branches.json)
  fileS,         \* the suggestion document (suggestions.json)
  opBuf,         \* the branches an apply tool is writing to branches.json
  committed,     \* history: branches as of construction or the last apply
  ret,           \* history: the last call and what it returned
  session,       \* the session_data dict of the conversation (agent.py)
  turn           \* history: how the last turn was resolved

storeVars == <<branches, suggestions, fileB, fileS, opBuf, committed, ret>>
sessionVars == <<session, turn>>
vars == <<storeVars, sessionVars>>

\* session_data["current_interruption"]; set = FALSE: the key is missing
Interruption(intent, orig) == [set |-> TRUE, intent |-> intent, orig |-> orig]
NoInterruption == [set |-> FALSE, intent |-> Null, orig |-> Null]

\* session_data["interruption_context"]: interrupted_stage and, when
\* handle_interruption's own dict was not replaced by
\* _save_interruption_context, interruption_type and the length of
\* stage_history
Context(stage, type, hist) == [set |-> TRUE, stage |-> stage, type |-> type, hist |-> hist]
NoContext == [set |-> FALSE, stage |-> Null, type |-> Absent, hist |-> 0]

\* the keys of session_data the controller reads or writes.  running is
\* the conversation loop of agent.py being inside its while loop.
\* language_preference and chat_history are left out: no step of the
\* controller branches on them.
Session(stage, isCallback) ==
  [stage |-> stage, ci |-> NoInterruption, ctx |-> NoContext,
   returned |-> FALSE, awaiting |-> FALSE, cbScheduled |-> FALSE,
   isCallback |-> isCallback, cbContinuation |-> isCallback,
   cbConfirmed |-> FALSE, running |-> TRUE]

\* no conversation yet
NoSession == [Session("greeting", FALSE) EXCEPT !.running = FALSE]

\* how the last turn was resolved: the step of process_conversation_turn
\* that returned, the path taken inside it, the stage the turn began on,
\* a bit that flips with every turn, and what resolved it (via): the
\* intent handled, the type of the rule matched or the branch redirected to;
\* gen is what send_to_gemini handed back when the turn called it
TurnRecord(step, path, stage0, tick) ==
  [step |-> step, path |-> path, stage0 |-> stage0, tick |-> tick, via |-> Null,
   gen |-> Null]
NoTurn == TurnRecord("none", "none", Null, FALSE)

\* ------------------------------------------------------------------------
\* BranchesManager: applying one operation.  Each returns the branches it
\* leaves behind and the success flag it returns; an exception raised inside
\* is caught by the operation's own try/except, which returns False and
\* keeps whatever was already written.
\* ------------------------------------------------------------------------
MinOf(S) == CHOOSE x \in S : \A y \in S : x <= y

\* positions of the branches whose intent is the given one, in dict order
IntentHits(b, intent) == {i \in DOMAIN b : b[i][2].intent = intent}

\* data["branch_data"] of a create operation
BranchData(op) == Branch(op.intent, op.prompt, op.hasEur, op.eur, op.action)

\* the calledWhen loop of _apply_create_operation (lines 498-530)
RECURSIVE CreateRewrite(_, _, _)
CreateRewrite(b, name, cw) ==
  IF cw = <<>> THEN [b |-> b, ok |-> TRUE]
  ELSE LET c == Head(cw) IN
    IF c.bad THEN [b |-> b, ok |-> FALSE]
    ELSE IF c.pi = Null \/ c.pr = Null THEN CreateRewrite(b, name, Tail(cw))
    ELSE IF IntentHits(b, c.pi) = {} THEN CreateRewrite(b, name, Tail(cw))
    ELSE LET i == MinOf(IntentHits(b, c.pi))
             br == b[i][2]
             eur0 == IF br.hasEur THEN br.eur ELSE <<>>
             br1 == [br EXCEPT !.hasEur = TRUE,
                               !.eur = Put(eur0, c.pr, Rule(name, c.ror, <<>>))]
         IN CreateRewrite([b EXCEPT ![i] = <<b[i][1], br1>>], name, Tail(cw))

\* a create that writes the branch whether or not the name is taken
ApplyCreateOverwriting(b, op) ==
  LET b1 == Put(b, op.name, BranchData(op)) IN
    IF op.hasCw /\ op.cw # <<>> THEN CreateRewrite(b1, op.name, op.cw)
    ELSE [b |-> b1, ok |-> TRUE]

ApplyCreateOperation(b, op) ==
  IF Has(b, op.name) THEN [b |-> b, ok |-> FALSE]
  ELSE LET b1 == Put(b, op.name, BranchData(op)) IN
    IF op.hasCw /\ op.cw # <<>> THEN CreateRewrite(b1, op.name, op.cw)
    ELSE [b |-> b1, ok |-> TRUE]

\* _update_previous_intents: an existing response key keeps its other
\* fields, a branch without expected_user_responses is left alone
RECURSIVE UpdatePreviousIntents(_, _, _)
UpdatePreviousIntents(b, target, cw) ==
  IF cw = <<>> THEN [b |-> b, ok |-> TRUE]
  ELSE LET c == Head(cw) IN
    IF c.bad THEN [b |-> b, ok |-> FALSE]
    ELSE IF c.pi = Null \/ c.pr = Null THEN UpdatePreviousIntents(b, target, Tail(cw))
    ELSE IF IntentHits(b, c.pi) = {} THEN UpdatePreviousIntents(b, target, Tail(cw))
    ELSE LET i == MinOf(IntentHits(b, c.pi))
             br == b[i][2]
             old == Get(br.eur, c.pr)
             new == IF Has(br.eur, c.pr)
                    THEN [old EXCEPT !.next = target,
                                     !.response = IF c.ror # Null THEN c.ror ELSE @]
                    ELSE Rule(target, c.ror, <<>>)
             br1 == IF br.hasEur THEN [br EXCEPT !.eur = Put(br.eur, c.pr, new)]
                    ELSE br
         IN UpdatePreviousIntents([b EXCEPT ![i] = <<b[i][1], br1>>], target, Tail(cw))

ApplyUpdateOperation(b, op) ==
  IF ~Has(b, op.name) THEN [b |-> b, ok |-> FALSE]
  ELSE LET i == Pos(b, op.name)
           br == b[i][2]
           br1 == [br EXCEPT
                     !.intent = IF op.intent # Absent THEN op.intent ELSE @,
                     !.prompt = IF op.prompt # Absent THEN op.prompt ELSE @,
                     !.hasEur = IF op.hasEur THEN TRUE ELSE @,
                     !.eur = IF op.hasEur THEN op.eur ELSE @,
                     !.action = IF op.action = Absent THEN @
                                ELSE IF op.action = "" THEN Absent ELSE op.action]
           b1 == [b EXCEPT ![i] = <<op.name, br1>>]
       IN IF op.hasCw THEN UpdatePreviousIntents(b1, op.name, op.cw)
          ELSE [b |-> b1, ok |-> TRUE]

\* a scrub that leaves every rule as it is
ScrubRuleKeep(r, name) == r

\* _remove_branch_references: every rule whose next is the name gets None
ScrubRule(r, name) == IF r.next = name THEN [r EXCEPT !.next = Null] ELSE r

RemoveBranchReferences(b, name) ==
  [i \in DOMAIN b |->
     <<b[i][1],
       [b[i][2] EXCEPT !.eur =
          [j \in DOMAIN @ |-> <<@[j][1], ScrubRule(@[j][2], name)>>]]>>]

ApplyDeleteOperation(b, op) ==
  IF ~Has(b, op.name) THEN [b |-> b, ok |-> FALSE]
  ELSE [b |-> RemoveBranchReferences(Del(b, op.name), op.name), ok |-> TRUE]

\* ------------------------------------------------------------------------
\* BranchesManager.apply_suggestions
\* ------------------------------------------------------------------------
\* the operation_indices argument: None (all) or a list of integers
SelAll == [all |-> TRUE, idx |-> <<>>]
SelIdx(l) == [all |-> FALSE, idx |-> l]

\* 0 .. n-1 as a sequence: the indices of enumerate(operations)
Enumerate(n) == [i \in 1..n |-> i - 1]

\* lines 403-406: the (index, operation) pairs to apply, by index
OpsToApply(log, sel) ==
  IF sel.all THEN Enumerate(Len(log))
  ELSE SelectSeq(sel.idx, LAMBDA i : 0 <= i /\ i < Len(log))

\* lines 422-433: dispatch on operation_type
ApplyOperation(b, op) ==
  IF op.type = "create" THEN ApplyCreateOperation(b, op)
  ELSE IF op.type = "update" THEN ApplyUpdateOperation(b, op)
  ELSE IF op.type = "delete" THEN ApplyDeleteOperation(b, op)
  ELSE [b |-> b, ok |-> FALSE]

\* the result of the loop so far
LoopStart(b) ==
  [b |-> b, applied |-> 0, failed |-> 0, nerr |-> 0, okIdx |-> <<>>,
   tried |-> <<>>, report |-> <<>>]

\* one pass of the loop of lines 413-457 for the pair (i, log[i])
LoopStep(acc, log, i) ==
  LET op == log[i + 1]
      r == ApplyOperation(acc.b, op)
      unknown == op.type \notin {"create", "update", "delete"}
  IN [b |-> r.b,
      applied |-> IF r.ok THEN acc.applied + 1 ELSE acc.applied,
      failed |-> IF r.ok THEN acc.failed ELSE acc.failed + 1,
      nerr |-> IF unknown THEN acc.nerr + 1 ELSE acc.nerr,
      okIdx |-> IF r.ok THEN Append(acc.okIdx, i) ELSE acc.okIdx,
      tried |-> Append(acc.tried, i),
      report |-> Append(acc.report, <<op.type, op.name, r.ok>>)]

RECURSIVE ApplyLoop(_, _, _)
ApplyLoop(acc, log, todo) ==
  IF todo = <<>> THEN acc
  ELSE ApplyLoop(LoopStep(acc, log, Head(todo)), log, Tail(todo))

\* sorted(applied_indices, reverse=True)
RECURSIVE InsertDesc(_, _)
InsertDesc(s, x) ==
  IF s = <<>> THEN <<x>>
  ELSE IF x >= Head(s) THEN <<x>> \o s
  ELSE <<Head(s)>> \o InsertDesc(Tail(s), x)

RECURSIVE SortedDesc(_)
SortedDesc(s) == IF s = <<>> THEN <<>> ELSE InsertDesc(SortedDesc(Tail(s)), Head(s))

RemoveAt(s, i) == SubSeq(s, 1, i) \o SubSeq(s, i + 2, Len(s))

\* lines 460-461: del pending_operations[index] for each applied index; an
\* index past the end raises IndexError, which nothing catches
RECURSIVE DeleteApplied(_, _)
DeleteApplied(log, idxs) ==
  IF idxs = <<>> THEN [log |-> log, raised |-> FALSE]
  ELSE IF Head(idxs) >= Len(log) THEN [log |-> log, raised |-> TRUE]
  ELSE DeleteApplied(RemoveAt(log, Head(idxs)), Tail(idxs))

\* _show_current_state (lines 655-675), which a verbose call runs before the
\* loop: it prints the called_when entries of every pending operation with
\* ai.get(..), which raises on an entry that is not a dict
ShowCurrentStateRaises(log) ==
  \E i \in DOMAIN log :
    log[i].hasCw /\ \E k \in DOMAIN log[i].cw : log[i].cw[k].bad

\* apply_suggestions(operation_indices, verbose): the store it leaves and
\* what it returns.  early: the "no pending operations" return of lines
\* 385-389; raised: the call ended in an uncaught exception, before the two
\* saves.
ApplySuggestions(b, log, sel, verbose) ==
  IF log = <<>> THEN
    [b |-> b, log |-> log, applied |-> 0, failed |-> 0, nerr |-> 0,
     okIdx |-> <<>>, tried |-> <<>>, report |-> <<>>, early |-> TRUE,
     raised |-> FALSE]
  ELSE IF verbose /\ ShowCurrentStateRaises(log) THEN
    [b |-> b, log |-> log, applied |-> 0, failed |-> 0, nerr |-> 0,
     okIdx |-> <<>>, tried |-> <<>>, report |-> <<>>, early |-> FALSE,
     raised |-> TRUE]
  ELSE LET r == ApplyLoop(LoopStart(b), log, OpsToApply(log, sel))
           d == DeleteApplied(log, SortedDesc(r.okIdx))
       IN [b |-> r.b, log |-> d.log, applied |-> r.applied, failed |-> r.failed,
           nerr |-> r.nerr, okIdx |-> r.okIdx, tried |-> r.tried,
           report |-> r.report, early |-> FALSE, raised |-> d.raised]

\* ------------------------------------------------------------------------
\* BranchesManager.preview_suggestions_effect
\* ------------------------------------------------------------------------
PreviewStart(b) ==
  [ids |-> Keys(b), creates |-> <<>>, updates |-> <<>>, deletes |-> <<>>,
   conflicts |-> <<>>, verdict |-> <<>>]

\* a preview that judges every operation against the committed ids alone
PreviewStepForgetful(acc, op) ==
  IF op.type = "create" THEN
    IF op.name \in acc.ids
    THEN [acc EXCEPT !.conflicts = Append(@, <<"create", op.name>>),
                     !.verdict = Append(@, "conflict")]
    ELSE [acc EXCEPT !.creates = Append(@, op.name),
                     !.verdict = Append(@, "creates")]
  ELSE IF op.type = "update" THEN
    IF op.name \notin acc.ids
    THEN [acc EXCEPT !.conflicts = Append(@, <<"update", op.name>>),
                     !.verdict = Append(@, "conflict")]
    ELSE [acc EXCEPT !.updates = Append(@, op.name),
                     !.verdict = Append(@, "updates")]
  ELSE IF op.type = "delete" THEN
    IF op.name \notin acc.ids
    THEN [acc EXCEPT !.conflicts = Append(@, <<"delete", op.name>>),
                     !.verdict = Append(@, "conflict")]
    ELSE [acc EXCEPT !.deletes = Append(@, op.name),
                     !.verdict = Append(@, "deletes")]
  ELSE [acc EXCEPT !.verdict = Append(@, "none")]

\* one pass of the loop of lines 620-645; temp_branches is used only for its
\* keys.  verdict records, operation by operation, the list the operation
\* went to ("none" for a type the loop does not know).
PreviewStep(acc, op) ==
  IF op.type = "create" THEN
    IF op.name \in acc.ids
    THEN [acc EXCEPT !.conflicts = Append(@, <<"create", op.name>>),
                     !.verdict = Append(@, "conflict")]
    ELSE [acc EXCEPT !.creates = Append(@, op.name),
                     !.ids = @ \cup {op.name},
                     !.verdict = Append(@, "creates")]
  ELSE IF op.type = "update" THEN
    IF op.name \notin acc.ids
    THEN [acc EXCEPT !.conflicts = Append(@, <<"update", op.name>>),
                     !.verdict = Append(@, "conflict")]
    ELSE [acc EXCEPT !.updates = Append(@, op.name),
                     !.verdict = Append(@, "updates")]
  ELSE IF op.type = "delete" THEN
    IF op.name \notin acc.ids
    THEN [acc EXCEPT !.conflicts = Append(@, <<"delete", op.name>>),
                     !.verdict = Append(@, "conflict")]
    ELSE [acc EXCEPT !.deletes = Append(@, op.name),
                     !.ids = @ \ {op.name},
                     !.verdict = Append(@, "deletes")]
  ELSE [acc EXCEPT !.verdict = Append(@, "none")]

RECURSIVE PreviewLoop(_, _)
PreviewLoop(acc, log) ==
  IF log = <<>> THEN acc ELSE PreviewLoop(PreviewStep(acc, Head(log)), Tail(log))

\* the preview of the whole pending log ("No pending operations to preview"
\* carries no lists: they are empty here)
PreviewSuggestionsEffect(b, log) == PreviewLoop(PreviewStart(b), log)

\* ------------------------------------------------------------------------
\* The two documents.  open(path, 'w') empties the file before json.dump
\* writes it, so a document is either whole or cut short; a document cut
\* short does not parse and _load_* turns it into its default.
\* ------------------------------------------------------------------------
Whole(doc) == [ok |-> TRUE, doc |-> doc]
CutShort == [ok |-> FALSE, doc |-> <<>>]

\* _load_branches / _load_suggestions
LoadBranches(f) == IF f.ok THEN f.doc ELSE <<>>
LoadSuggestions(f) == IF f.ok THEN f.doc ELSE <<>>

\* ------------------------------------------------------------------------
\* The values the calls are tried with
\* ------------------------------------------------------------------------
CwNone == <<>>
CwBroken == <<CwEntry("greet", "yes", "r_yes"), CwBadEntry>>

EurHelp == << <<"positive", Rule("closure", "r_pos", <<>>)>> >>

BranchGreeting ==
  Branch("greet", "p_greeting", TRUE,
         << <<"yes", Rule("policy_confirmation", "r_ok", <<<<"y", "e", "s">>, <<"s", "p", "e", "a", "k", "i", "n", "g">>>>)>>,
            <<"no", Rule("closure", Null, <<>>)>> >>, Absent)
BranchConfirmation ==
  Branch("confirm", "p_confirmation", TRUE,
         << <<"confirms", Rule("closure", "r_confirmed", <<<<"c", "o", "r", "r", "e", "c", "t">>>>)>>,
            <<"has_bond", Rule("closure", Null, <<<<"p", "o", "l", "i", "c", "y", " ", "b", "o", "n", "d">>>>)>> >>, Absent)
BranchClosure == Branch("close", "p_closure", FALSE, <<>>, "END_CALL")

\* the branch document the store is constructed from
Graph0 ==
  << <<"greeting", BranchGreeting>>,
     <<"policy_confirmation", BranchConfirmation>>,
     <<"closure", BranchClosure>> >>

\* an operation whose type apply_suggestions does not know; only a
\* suggestion document written by hand holds one
OpUnknown == Op("rename", "closure", Absent, Absent, FALSE, <<>>, Absent, FALSE, <<>>)

\* the arguments create_branch is called with: (name, intent, prompt,
\* expected_user_responses, called_when given?, called_when)
CreateArgs ==
  { <<"closure", "close", "p_closure2", <<>>, FALSE, CwNone>>,
    <<"closure", "close", "p_closure2", EurHelp, TRUE, CwBroken>> }

\* the arguments update_branch is called with: (name, intent, prompt,
\* expected_user_responses given?, expected_user_responses, action,
\* called_when given?, called_when); Absent is an argument left None
UpdateArgs ==
  { <<"closure", Absent, "p_closure3", FALSE, <<>>, Absent, FALSE, CwNone>>,
    <<"closure", Absent, Absent, TRUE, EurHelp, "", TRUE, CwBroken>> }

DeleteArgs == {"closure"}

\* index lists of at most MaxIdx entries, out-of-range ones included
RECURSIVE IndexLists(_)
IndexLists(n) ==
  IF n = 0 THEN {<<>>}
  ELSE IndexLists(n - 1) \cup
       {Append(l, i) : l \in {m \in IndexLists(n - 1) : Len(m) = n - 1},
                       i \in (-1)..MaxIndex}

Selections == {SelAll} \cup {SelIdx(l) : l \in IndexLists(MaxIdx)}

\* ------------------------------------------------------------------------
\* BranchesManager: the calls, on the store in use
\* ------------------------------------------------------------------------
\* what the last call was and what it reported; report holds, for
\* apply_suggestions, (type, name, succeeded) of each operation it tried
Ret(op, ok, applied, failed, report, raised) ==
  [op |-> op, ok |-> ok, applied |-> applied, failed |-> failed,
   report |-> report, raised |-> raised]

NoReport == [all |-> FALSE, tried |-> <<>>]
ApplyReport(sel, r) == [all |-> sel.all, tried |-> r.report]

\* a log that takes the new operation at its front
AddOperationFirst(log, op) == <<op>> \o log

\* _add_operation_to_suggestions: append, then _save_suggestions
AddOperationToSuggestions(log, op) == Append(log, op)

\* create_branch
CreateBranchResult(b, log, a) ==
  IF Has(b, a[1]) THEN [log |-> log, ok |-> FALSE]
  ELSE [log |-> AddOperationToSuggestions(log,
                  Op("create", a[1], a[2], a[3], TRUE, a[4], Absent, a[5], a[6])),
        ok |-> TRUE]

\* update_branch
UpdateBranchResult(b, log, a) ==
  IF ~Has(b, a[1]) THEN [log |-> log, ok |-> FALSE]
  ELSE [log |-> AddOperationToSuggestions(log,
                  Op("update", a[1], a[2], a[3], a[4], a[5], a[6], a[7], a[8])),
        ok |-> TRUE]

\* delete_branch
DeleteBranchResult(b, log, name) ==
  IF ~Has(b, name) THEN [log |-> log, ok |-> FALSE]
  ELSE [log |-> AddOperationToSuggestions(log,
                  Op("delete", name, Absent, Absent, FALSE, <<>>, Absent, FALSE, <<>>)),
        ok |-> TRUE]

\* a staging call that also carries out the operation it appended
StagedApplied(call, r) ==
  /\ suggestions' = r.log
  /\ fileS' = IF r.ok THEN Whole(r.log) ELSE fileS
  /\ ret' = Ret(call, r.ok, 0, 0, NoReport, FALSE)
  /\ branches' = IF r.ok THEN ApplyOperation(branches, r.log[Len(r.log)]).b ELSE branches
  /\ fileB' = Whole(branches')
  /\ UNCHANGED <<opBuf, committed, sessionVars>>

\* a staging call: the log and the suggestion document follow the result,
\* nothing else is written
Staged(call, r) ==
  /\ suggestions' = r.log
  /\ fileS' = IF r.ok THEN Whole(r.log) ELSE fileS
  /\ ret' = Ret(call, r.ok, 0, 0, NoReport, FALSE)
  /\ UNCHANGED <<branches, fileB, opBuf, committed, sessionVars>>

ProposeCreate(a) ==
  /\ Len(suggestions) < MaxLog
  /\ Staged("create_branch", CreateBranchResult(branches, suggestions, a))

ProposeUpdate(a) ==
  /\ Len(suggestions) < MaxLog
  /\ Staged("update_branch", UpdateBranchResult(branches, suggestions, a))

ProposeDelete(name) ==
  /\ Len(suggestions) < MaxLog
  /\ Staged("delete_branch", DeleteBranchResult(branches, suggestions, name))

\* apply_suggestions, with its two saves (lines 464-466)
Apply(sel, verbose) ==
  LET r == ApplySuggestions(branches, suggestions, sel, verbose) IN
  /\ branches' = r.b
  /\ suggestions' = r.log
  /\ fileS' = IF r.early \/ r.raised THEN fileS ELSE Whole(r.log)
  /\ fileB' = IF ~r.early /\ ~r.raised /\ r.applied > 0 THEN Whole(r.b) ELSE fileB
  /\ opBuf' = opBuf
  /\ UNCHANGED sessionVars
  /\ committed' = r.b
  /\ ret' = Ret("apply_suggestions", ~r.raised, r.applied, r.failed, ApplyReport(sel, r),
             r.raised)

\* a preview that simulates on the graph itself instead of a copy
PreviewInPlace ==
  LET r == PreviewSuggestionsEffect(branches, suggestions) IN
  /\ ret' = Ret("preview", TRUE, Len(r.creates) + Len(r.updates) + Len(r.deletes),
                Len(r.conflicts), NoReport, FALSE)
  /\ branches' = ApplySuggestions(branches, suggestions, SelAll, FALSE).b
  /\ UNCHANGED <<suggestions, fileB, fileS, opBuf, committed, sessionVars>>

\* preview_suggestions_effect
Preview ==
  LET r == PreviewSuggestionsEffect(branches, suggestions) IN
  /\ ret' = Ret("preview", TRUE, Len(r.creates) + Len(r.updates) + Len(r.deletes),
                Len(r.conflicts), NoReport, FALSE)
  /\ UNCHANGED <<branches, suggestions, fileB, fileS, opBuf, committed, sessionVars>>

\* clear_suggestions
ClearSuggestions ==
  /\ suggestions' = <<>>
  /\ fileS' = Whole(<<>>)
  /\ ret' = Ret("clear_suggestions", TRUE, 0, 0, NoReport, FALSE)
  /\ UNCHANGED <<branches, fileB, opBuf, committed, sessionVars>>

\* BranchesManager.__init__ over the two documents
InitStore ==
  /\ fileB = Whole(Graph0)
  /\ fileS \in {Whole(<<>>), Whole(<<OpUnknown>>)}
  /\ branches = LoadBranches(fileB)
  /\ suggestions = LoadSuggestions(fileS)
  /\ opBuf = <<>>
  /\ committed = branches
  /\ ret = Ret("init", TRUE, 0, 0, NoReport, FALSE)
  /\ session = NoSession
  /\ turn = NoTurn

NextStore ==
  \/ \E a \in CreateArgs : ProposeCreate(a)
  \/ \E a \in UpdateArgs : ProposeUpdate(a)
  \/ \E n \in DeleteArgs : ProposeDelete(n)
  \/ \E sel \in Selections, verbose \in BOOLEAN : Apply(sel, verbose)
  \/ Preview
  \/ ClearSuggestions

SpecStore == InitStore /\ [][NextStore]_vars

\* ------------------------------------------------------------------------
\* Two processes over the two documents: the agent (agent.py line 27 builds
\* its BranchesManager when it starts, and stages operations during the
\* conversation) and the apply tool (apply_suggestions.py builds its own
\* BranchesManager and calls apply_suggestions).  branches and suggestions
\* are the agent's store; the tool's store lives for one call.  No lock is
\* taken by either, so a step of one may fall between the open(path, 'w') of
\* the other's save and the end of its json.dump.
\* ------------------------------------------------------------------------

\* the agent starts: BranchesManager.__init__ reads both documents
AgentStart ==
  /\ branches' = LoadBranches(fileB)
  /\ suggestions' = LoadSuggestions(fileS)
  /\ ret' = Ret("load", fileB.ok, 0, 0, NoReport, FALSE)
  /\ UNCHANGED <<fileB, fileS, opBuf, committed, sessionVars>>

\* the agent stages a branch (create_branch on its store)
AgentPropose(a) ==
  /\ Len(suggestions) < MaxLog
  /\ Staged("create_branch", CreateBranchResult(branches, suggestions, a))

AgentProposeDelete(name) ==
  /\ Len(suggestions) < MaxLog
  /\ Staged("delete_branch", DeleteBranchResult(branches, suggestions, name))

\* the tool runs "apply" (verbose, apply_suggestions.py lines 149 and 179):
\* it loads the documents, applies, saves the log
\* (line 464) and, when something was applied, opens branches.json for
\* writing (lines 465-466, _save_branches line 53)
ToolApply(sel) ==
  LET r == ApplySuggestions(LoadBranches(fileB), LoadSuggestions(fileS), sel, TRUE) IN
  /\ fileB.ok
  /\ ~r.early /\ ~r.raised
  /\ fileS' = Whole(r.log)
  /\ IF r.applied > 0
     THEN fileB' = CutShort /\ opBuf' = r.b
     ELSE UNCHANGED <<fileB, opBuf>>
  /\ ret' = Ret("tool_apply", TRUE, r.applied, r.failed, ApplyReport(sel, r), FALSE)
  /\ UNCHANGED <<branches, suggestions, committed, sessionVars>>

\* json.dump of _save_branches (line 54) completes
ToolSaveDone ==
  /\ ~fileB.ok
  /\ fileB' = Whole(opBuf)
  /\ committed' = opBuf
  /\ ret' = Ret("tool_saved", TRUE, 0, 0, NoReport, FALSE)
  /\ UNCHANGED <<branches, suggestions, fileS, opBuf, sessionVars>>

InitFiles ==
  /\ fileB = Whole(Graph0)
  /\ fileS = Whole(<<>>)
  /\ branches = LoadBranches(fileB)
  /\ suggestions = LoadSuggestions(fileS)
  /\ opBuf = Graph0
  /\ committed = Graph0
  /\ ret = Ret("init", TRUE, 0, 0, NoReport, FALSE)
  /\ session = NoSession
  /\ turn = NoTurn

NextFiles ==
  \/ AgentStart
  \/ \E a \in CreateArgs : AgentPropose(a)
  \/ \E n \in DeleteArgs : AgentProposeDelete(n)
  \/ \E sel \in Selections : ToolApply(sel)
  \/ ToolSaveDone

SpecFiles == InitFiles /\ [][NextFiles]_vars

\* ------------------------------------------------------------------------
\* InterruptionHandler.  The interruptible_intents table is read from the
\* branch document when the handler is built (lines 22-25) and never
\* reloaded.
\* ------------------------------------------------------------------------
\* a follow-up rule of an intent; action Absent: the rule names no action
IRule(kw, action) == [kw |-> kw, action |-> action]

\* an intent of the table; target Absent: no target_stage
Intent(kw, priority, stages, action, target, rtmf, eur) ==
  [kw |-> kw, priority |-> priority, stages |-> stages, action |-> action,
   target |-> target, rtmf |-> rtmf, eur |-> eur]

Wildcard == <<<<"*">>>>

\* the table the handler is built with
Intents ==
  << <<"repeat_request",
       Intent(<<<<"r", "e", "p", "e", "a", "t">>, <<"a", "g", "a", "i", "n">>>>, "medium", <<"*">>, "repeat_last_response",
              Absent, TRUE,
              << <<"acknowledged", IRule(<<<<"o", "k">>, <<"t", "h", "a", "n", "k", "s">>>>, "return_to_main_flow")>>,
                 <<"confused", IRule(<<<<"h", "m", "m">>>>, "transfer_to_agent")>> >>)>>,
     <<"reschedule_callback",
       Intent(<<<<"b", "u", "s", "y">>, <<"c", "a", "l", "l", " ", "l", "a", "t", "e", "r">>>>, "high", <<"*">>, "schedule_callback",
              Absent, FALSE,
              << <<"provides_time", IRule(<<<<"t", "o", "m", "o", "r", "r", "o", "w">>>>, "end_conversation")>>,
                 <<"changed_mind", IRule(<<<<"c", "o", "n", "t", "i", "n", "u", "e">>>>, "next:policy_confirmation")>> >>)>>,
     <<"complaint_or_angry",
       Intent(<<<<"c", "o", "m", "p", "l", "a", "i", "n", "t">>>>, "high", <<"*">>, "escalate_to_complaint_handling",
              Absent, FALSE, <<>>)>>,
     <<"ask_about_other_policies",
       Intent(<<<<"o", "t", "h", "e", "r", " ", "p", "o", "l", "i", "c", "i", "e", "s">>>>, "low", <<"policy_confirmation">>,
              "acknowledge_and_redirect", Absent, TRUE,
              << <<"anything", IRule(Wildcard, Absent)>> >>)>>,
     <<"pay_now_request",
       Intent(<<<<"p", "a", "y", " ", "n", "o", "w">>, <<"u", "p", "i">>, <<"c", "a", "r", "d">>, <<"l", "i", "n", "k">>>>, "high", <<"*">>, "jump_to_payment_flow",
              "payment_link", FALSE, <<>>)>>,
     <<"already_paid_interruption",
       Intent(<<<<"a", "l", "r", "e", "a", "d", "y", " ", "p", "a", "i", "d">>>>, "high", <<"*">>, "jump_to_verification",
              "verify_payment", FALSE, <<>>)>>,
     <<"renewal_commitment_interrupt",
       Intent(<<<<"r", "e", "n", "e", "w">>, <<"k", "e", "e", "p", " ", "p", "o", "l", "i", "c", "y">>, <<"r", "e", "a", "c", "t", "i", "v", "a", "t", "e">>>>, "medium", <<"*">>, "acknowledge_and_redirect",
              Absent, TRUE,
              << <<"anything", IRule(Wildcard, Absent)>> >>)>>,
     <<"ask_branch_location",
       Intent(<<<<"b", "r", "a", "n", "c", "h">>, <<"o", "f", "f", "i", "c", "e">>, <<"a", "d", "d", "r", "e", "s", "s">>>>, "low", <<"*">>, "acknowledge_and_redirect",
              Absent, TRUE,
              << <<"anything", IRule(Wildcard, Absent)>> >>)>> >>

\* confidences are held in millionths, rounded down; on the tables of this
\* model every comparison the code makes on them has the outcome it has on
\* the doubles of the code
Unit == 1000000

Min(a, b) == IF a < b THEN a ELSE b
Max(a, b) == IF a > b THEN a ELSE b

\* _get_priority_weight, in tenths
PriorityWeight(priority) ==
  IF priority = "high" THEN 12 ELSE IF priority = "low" THEN 8 ELSE 10

\* _calculate_keyword_confidence(user_input, keywords)
KeywordConfidence(inp, kws) ==
  LET hit == {j \in DOMAIN kws : Contains(inp, Lower(kws[j]))}
      \* best_match_score > n/100
      scoreOver(n) ==
        Len(inp) > 0 /\ \E j \in hit : Len(kws[j]) * 100 > n * Len(inp)
      base == (Cardinality(hit) * Unit) \div Len(kws)
      boosted == IF scoreOver(30) THEN Min(Unit, base + 400000)
                 ELSE IF scoreOver(15) THEN Min(Unit, base + 200000)
                 ELSE base
      exact == IF \E j \in DOMAIN kws : Lower(kws[j]) = Strip(inp)
               THEN Min(Unit, boosted + 300000) ELSE boosted
  IN IF kws = <<>> \/ hit = {} THEN 0
     ELSE IF scoreOver(10) THEN Max(exact, 500000) ELSE exact

\* a loop that keeps the first intent that scores
BetterOfFirst(prev, name, weighted) ==
  IF prev.intent = Null /\ weighted > 0 THEN [intent |-> name, conf |-> weighted] ELSE prev

\* the loop of detect_interruption over the first n intents of the table:
\* the best intent so far and its weighted confidence
BetterOf(prev, name, weighted) ==
  IF weighted > prev.conf THEN [intent |-> name, conf |-> weighted] ELSE prev

RECURSIVE DetectLoop(_, _, _)
DetectLoop(inp, stage, n) ==
  IF n = 0 THEN [intent |-> Null, conf |-> 0]
  ELSE LET it == Intents[n][2]
           admitted == it.stages = <<"*">> \/ \E k \in DOMAIN it.stages : it.stages[k] = stage
       IN IF admitted
          THEN BetterOf(DetectLoop(inp, stage, n - 1), Intents[n][1],
                        (KeywordConfidence(inp, it.kw) * PriorityWeight(it.priority)) \div 10)
          ELSE DetectLoop(inp, stage, n - 1)

\* detect_interruption(user_input, current_stage, confidence_threshold)
DetectInterruption(u, stage, threshold) ==
  IF u = <<>> \/ Intents = <<>> THEN [is |-> FALSE, intent |-> Null, conf |-> 0]
  ELSE LET r == DetectLoop(Strip(Lower(u)), stage, Len(Intents))
       IN [is |-> r.conf >= threshold, intent |-> r.intent, conf |-> r.conf]

\* is_critical_interruption
CriticalIntents ==
  {"reschedule_callback", "complaint_or_angry", "early_payment_decision",
   "already_paid_interruption"}

IsCriticalInterruption(name) == Has(Intents, name) /\ name \in CriticalIntents

\* what a step hands back for the session: update is
\* metadata["update"]["conversation_stage"] (Absent: not in the metadata),
\* confirmed and scheduled are the callback_confirmed and callback_scheduled
\* entries of the update
Meta(update, confirmed, scheduled) ==
  [update |-> update, confirmed |-> confirmed, scheduled |-> scheduled]
NoMeta == Meta(Absent, FALSE, FALSE)

\* a jump that leaves the interruption in the session
ClearInterruptionKeep(s) == s

\* session_data.pop("current_interruption") and
\* session_data.pop("interruption_context") of the jump and escalate
\* actions
ClearInterruption(s) == [s EXCEPT !.ci = NoInterruption, !.ctx = NoContext]

\* handle_interruption(intent_name, user_input, current_stage, session_data)
HandleInterruption(name, stage, s) ==
  IF ~Has(Intents, name) THEN [s |-> s, meta |-> NoMeta, resume |-> TRUE]
  ELSE
    LET it == Get(Intents, name)
        \* lines 139-156
        s1 == [s EXCEPT !.ci = Interruption(name, stage),
                        !.ctx = IF it.rtmf THEN Context(stage, Absent, 0)
                                ELSE Context(stage, name, 1)]
        cleared == ClearInterruption(s1)
    IN IF it.action = "repeat_last_response"
       THEN [s |-> s1, meta |-> NoMeta, resume |-> TRUE]
       ELSE IF it.action = "schedule_callback"
       THEN [s |-> [s1 EXCEPT !.awaiting = TRUE], meta |-> NoMeta, resume |-> FALSE]
       ELSE IF it.action = "jump_to_payment_flow"
       THEN [s |-> cleared,
             meta |-> Meta(IF it.target = Absent THEN "payment_followup" ELSE it.target,
                           FALSE, FALSE),
             resume |-> FALSE]
       ELSE IF it.action = "jump_to_verification"
       THEN [s |-> cleared,
             meta |-> Meta(IF it.target = Absent THEN "payment_already_made" ELSE it.target,
                           FALSE, FALSE),
             resume |-> FALSE]
       ELSE IF it.action = "switch_language"
       THEN [s |-> s1, meta |-> NoMeta, resume |-> TRUE]
       ELSE IF it.action = "escalate_to_complaint_handling"
       THEN [s |-> cleared, meta |-> Meta("complaint_handling", FALSE, FALSE),
             resume |-> FALSE]
       ELSE [s |-> s1, meta |-> NoMeta, resume |-> TRUE]

\* get_intelligent_resume_stage; Null is None
IntelligentResumeStage(s) ==
  IF ~s.ctx.set THEN Null
  ELSE IF s.ctx.type \in {"renewal_commitment_interrupt", "early_payment_decision"}
  THEN "payment_followup"
  ELSE IF s.ctx.type = "ask_about_other_policies" /\ s.ctx.hist > 1
          /\ s.ctx.stage = "policy_confirmation"
  THEN "explain_policy_loss"
  ELSE IF s.ctx.type = "ambiguous_response_clarification"
          /\ s.ctx.stage = "policy_confirmation"
  THEN "clarify_reactivation_intent"
  ELSE s.ctx.stage

\* the typo lists of handle_interruption_response (lines 502-516)
TypoVariations(kw) ==
  IF kw = <<"t", "o", "m", "o", "r", "r", "o", "w">> THEN <<<<"t", "o", "m", "m", "o", "r", "o", "w">>, <<"t", "o", "m", "o", "r", "o", "w">>, <<"t", "o", "m", "o", "r", "r", "r", "o", "w">>, <<"t", "o", "m", "m", "o", "r", "r", "o", "w">>>>
  ELSE IF kw = <<"m", "o", "r", "n", "i", "n", "g">> THEN <<<<"m", "o", "r", "n", "i", "g">>, <<"m", "o", "r", "n", "g">>, <<"m", "o", "r", "i", "n", "g">>>>
  ELSE IF kw = <<"e", "v", "e", "n", "i", "n", "g">> THEN <<<<"e", "v", "e", "n", "i", "g">>, <<"e", "v", "n", "i", "n", "g">>, <<"e", "v", "e", "n", "g">>>>
  ELSE <<>>

\* the keyword loop of lines 494-514
KeywordOrTypoMatch(inp, kws) ==
  \E j \in DOMAIN kws :
    \/ Contains(inp, Lower(kws[j]))
    \/ ContainsAny(inp, TypoVariations(Lower(kws[j])))

IsDigitAt(s, i) == i >= 1 /\ i <= Len(s) /\ s[i] \in Digits
IsSpaceAt(s, i) == i >= 1 /\ i <= Len(s) /\ s[i] \in Spaces
IsSepAt(s, i) == i >= 1 /\ i <= Len(s) /\ s[i] \in Spaces \cup {":"}

\* re.search over the five time_patterns of lines 518-524 (the third is the
\* first followed by more: it matches only where the first does)
TimePattern(s) ==
  \/ \E i \in DOMAIN s : \E d \in {1, 2} :
       /\ \A k \in 0..(d - 1) : IsDigitAt(s, i + k)
       /\ IsSepAt(s, i + d) /\ IsDigitAt(s, i + d + 1) /\ IsDigitAt(s, i + d + 2)
  \/ \E i \in DOMAIN s : \E d \in {1, 2} : \E sp \in {0, 1} :
       /\ \A k \in 0..(d - 1) : IsDigitAt(s, i + k)
       /\ sp = 1 => IsSpaceAt(s, i + d)
       /\ StartsAt(s, i + d + sp, <<"a", "m">>) \/ StartsAt(s, i + d + sp, <<"p", "m">>)
  \/ ContainsAny(s, <<<<"m", "o", "r", "n", "i", "n", "g">>, <<"a", "f", "t", "e", "r", "n", "o", "o", "n">>, <<"e", "v", "e", "n", "i", "n", "g">>, <<"n", "i", "g", "h", "t">>>>)
  \/ ContainsAny(s, <<<<"t", "o", "d", "a", "y">>, <<"t", "o", "m", "o", "r", "r", "o", "w">>, <<"t", "o", "m", "m", "o", "r", "o", "w">>, <<"t", "o", "m", "m", "o", "r", "r", "o", "w">>>>)

\* whether the keyworded rule (name, rule) matches, lines 491-526
FollowUpRuleMatches(inp, name, rule) ==
  /\ rule.kw # <<>> /\ rule.kw # Wildcard
  /\ \/ KeywordOrTypoMatch(inp, rule.kw)
     \/ name = "provides_time" /\ TimePattern(inp)

RuleAction(rule) == IF rule.action = Absent THEN "return_to_main_flow" ELSE rule.action

\* action.startswith("next:") and action.split(":", 1)[1] (lines 572-573),
\* on the actions the table holds
NextActions ==
  << <<"next:policy_confirmation", "policy_confirmation">>,
     <<"next:closure", "closure">>,
     <<"next:", "">> >>
IsNextAction(a) == Has(NextActions, a)
NextOf(a) == Get(NextActions, a)

\* a rule whose action the loop of lines 528-579 returns on
Decides(rule) ==
  RuleAction(rule) \in {"return_to_main_flow", "end_conversation"} \/ IsNextAction(RuleAction(rule))

\* a restore that falls back on the default stage
RestoredStageDefault(s) == "greeting"

\* original_stage or session_data.get("conversation_stage", "greeting")
RestoredStage(s) == IF s.ci.orig \in {Null, ""} THEN s.stage ELSE s.ci.orig

\* the rule loops of handle_interruption_response (lines 491-605) on the
\* positions of the keyworded rules that match and decide, and of the
\* wildcard rules that return to the main flow
ResolveInterruption(s, eur, keyed, wild) ==
  LET both == [s EXCEPT !.ci = NoInterruption, !.ctx = NoContext]
      a == RuleAction(eur[MinOf(keyed)][2])
  IN IF keyed # {}
     THEN IF a = "return_to_main_flow"
          THEN [s |-> [both EXCEPT !.returned = TRUE],
                meta |-> Meta(RestoredStage(s), FALSE, FALSE),
                path |-> "return_to_main_flow", resolved |-> TRUE]
          ELSE IF a = "end_conversation"
          THEN [s |-> [both EXCEPT !.cbScheduled = TRUE],
                meta |-> Meta("closure", FALSE, TRUE),
                path |-> "end_conversation", resolved |-> FALSE]
          ELSE [s |-> [s EXCEPT !.ci = NoInterruption],
                meta |-> Meta(NextOf(a), FALSE, FALSE),
                path |-> "next", resolved |-> FALSE]
     ELSE IF wild # {}
     THEN [s |-> [both EXCEPT !.returned = TRUE],
           meta |-> Meta(RestoredStage(s), FALSE, FALSE),
           path |-> "wildcard", resolved |-> FALSE]
     ELSE [s |-> [s EXCEPT !.ci = NoInterruption, !.returned = TRUE],
           meta |-> Meta(RestoredStage(s), FALSE, FALSE),
           path |-> "default", resolved |-> FALSE]

\* a follow-up that answers without touching the session
HandleInterruptionResponseIdle(u, s) ==
  [s |-> s, meta |-> NoMeta, path |-> "default", resolved |-> FALSE]

\* handle_interruption_response(user_input, session_data): the session it
\* leaves, the metadata, the path taken and whether the metadata carries
\* interruption_resolved
HandleInterruptionResponse(u, s) ==
  LET inp == Lower(u)
      eur == IF Has(Intents, s.ci.intent) THEN Get(Intents, s.ci.intent).eur ELSE <<>>
  IN IF ~s.ci.set
     THEN [s |-> s, meta |-> NoMeta, path |-> "none", resolved |-> FALSE]
     ELSE ResolveInterruption(s, eur,
            {j \in DOMAIN eur :
               FollowUpRuleMatches(inp, eur[j][1], eur[j][2]) /\ Decides(eur[j][2])},
            {j \in DOMAIN eur :
               eur[j][2].kw = Wildcard /\ RuleAction(eur[j][2]) = "return_to_main_flow"})

\* ------------------------------------------------------------------------
\* ResponseAnalyzer
\* ------------------------------------------------------------------------
\* expected_user_responses of the stage's branch, {} when there is none
StageRules(b, stage) ==
  IF Has(b, stage) /\ Get(b, stage).hasEur THEN Get(b, stage).eur ELSE <<>>

\* the negation_patterns of lines 64-77, each followed by the keyword
NegationPrefixes ==
  <<<<"n", "o", " ">>, <<"d", "o", "n", "'", "t", " ">>, <<"d", "o", "n", "t", " ">>, <<"n", "o", "t", " ">>, <<"n", "o", " ", "i", " ", "d", "o", "n", "'", "t", " ">>, <<"n", "o", " ", "i", " ", "d", "o", "n", "t", " ">>, <<"i", " ", "d", "o", "n", "'", "t", " ">>,
    <<"i", " ", "d", "o", "n", "t", " ">>, <<"i", " ", "d", "o", "n", "'", "t", " ", "h", "a", "v", "e", " ">>, <<"i", " ", "d", "o", "n", "t", " ", "h", "a", "v", "e", " ">>, <<"n", "o", " ", "i", " ", "d", "o", "n", "'", "t", " ", "h", "a", "v", "e", " ">>,
    <<"n", "o", " ", "i", " ", "d", "o", "n", "t", " ", "h", "a", "v", "e", " ">>>>

Negated(inp, kw) ==
  \E j \in DOMAIN NegationPrefixes : Contains(inp, NegationPrefixes[j] \o kw)

\* a keyword of the rule is in the input and is not negated (lines 58-85)
KeywordHit(inp, rule) ==
  \E j \in DOMAIN rule.kw :
    Contains(inp, Lower(rule.kw[j])) /\ ~Negated(inp, Lower(rule.kw[j]))

GenericYes ==
  <<<<"y", "e", "s">>, <<"o", "k">>, <<"o", "k", "a", "y">>, <<"f", "i", "n", "e">>, <<"s", "u", "r", "e">>, <<"c", "o", "r", "r", "e", "c", "t">>, <<"r", "i", "g", "h", "t">>, <<"s", "p", "e", "a", "k", "i", "n", "g">>,
    <<"t", "h", "i", "s", " ", "i", "s">>, <<"i", " ", "a", "m">>, <<"y", "e", "a", "h">>, <<"y", "e", "p">>, <<"a", "l", "r", "i", "g", "h", "t">>, <<"a", "b", "s", "o", "l", "u", "t", "e", "l", "y">>, <<"g", "o", " ", "a", "h", "e", "a", "d">>,
    <<"p", "r", "o", "c", "e", "e", "d">>, <<"c", "o", "n", "t", "i", "n", "u", "e">>, <<"r", "i", "g", "h", "t", " ", "t", "i", "m", "e">>>>
GenericNo ==
  <<<<"n", "o">>, <<"n", "o", "t">>, <<"n", "o", "p", "e">>, <<"w", "r", "o", "n", "g">>, <<"i", "n", "c", "o", "r", "r", "e", "c", "t">>, <<"n", "o", "t", " ", "m", "e">>, <<"n", "o", "t", " ", "h", "e", "r", "e">>,
    <<"n", "o", "t", " ", "a", "v", "a", "i", "l", "a", "b", "l", "e">>, <<"n", "o", "t", " ", "n", "o", "w">>, <<"l", "a", "t", "e", "r">>, <<"b", "u", "s", "y">>, <<"n", "o", "t", " ", "g", "o", "o", "d", " ", "t", "i", "m", "e">>, <<"c", "a", "l", "l", " ", "b", "a", "c", "k">>>>

GenericPatterns(name) ==
  IF name = "yes" THEN GenericYes ELSE IF name = "no" THEN GenericNo ELSE <<>>

NoQuestionsPatterns ==
  <<<<"n", "o", " ", "q", "u", "e", "s", "t", "i", "o", "n", "s">>, <<"d", "o", "n", "t", " ", "h", "a", "v", "e", " ", "q", "u", "e", "s", "t", "i", "o", "n", "s">>, <<"d", "o", "n", "'", "t", " ", "h", "a", "v", "e", " ", "q", "u", "e", "s", "t", "i", "o", "n", "s">>,
    <<"n", "o", " ", "i", " ", "d", "o", "n", "t", " ", "h", "a", "v", "e", " ", "q", "u", "e", "s", "t", "i", "o", "n", "s">>, <<"n", "o", " ", "i", " ", "d", "o", "n", "'", "t", " ", "h", "a", "v", "e", " ", "q", "u", "e", "s", "t", "i", "o", "n", "s">>,
    <<"i", " ", "d", "o", "n", "t", " ", "h", "a", "v", "e", " ", "q", "u", "e", "s", "t", "i", "o", "n", "s">>, <<"i", " ", "d", "o", "n", "'", "t", " ", "h", "a", "v", "e", " ", "q", "u", "e", "s", "t", "i", "o", "n", "s">>>>

Matched(name, rule) ==
  [matches |-> TRUE, type |-> name, response |-> rule.response, next |-> rule.next]
NotMatched == [matches |-> FALSE, type |-> Null, response |-> Null, next |-> Null]

\* a matcher that tries the generic patterns before the keywords
FirstMatchGenericFirst(stage, inp, eur, keyed, generic) ==
  IF generic # {} THEN Matched(eur[MinOf(generic)][1], eur[MinOf(generic)][2])
  ELSE IF keyed # {} THEN Matched(eur[MinOf(keyed)][1], eur[MinOf(keyed)][2])
  ELSE NotMatched

\* the three steps of check_if_response_matches_expected on the positions
\* of the rules a keyword hits and of those a generic pattern hits
FirstMatch(stage, inp, eur, keyed, generic) ==
  IF keyed # {} THEN Matched(eur[MinOf(keyed)][1], eur[MinOf(keyed)][2])
  ELSE IF /\ stage = "policy_status_explanation"
          /\ ContainsAny(inp, NoQuestionsPatterns)
          /\ Has(eur, "wants_to_proceed")
  THEN Matched("wants_to_proceed", Get(eur, "wants_to_proceed"))
  ELSE IF generic # {} THEN Matched(eur[MinOf(generic)][1], eur[MinOf(generic)][2])
  ELSE NotMatched

\* check_if_response_matches_expected(user_input, current_stage)
CheckIfResponseMatchesExpected(b, u, stage) ==
  LET eur == StageRules(b, stage)
      inp == Lower(u)
  IN IF eur = <<>> THEN NotMatched
     ELSE FirstMatch(stage, inp, eur,
            {j \in DOMAIN eur : KeywordHit(inp, eur[j][2])},
            {j \in DOMAIN eur :
               /\ eur[j][2].kw = <<>>
               /\ ContainsAny(inp, GenericPatterns(eur[j][1]))})

\* the context_mappings of find_appropriate_existing_branch (lines 132-139):
\* stage, the response key it names and the confidence
ContextMappings ==
  << <<"policy_status_explanation", <<"wants_to_know_importance", 800000>> >>,
     <<"explain_policy_loss", <<"wants_payment_options", 800000>> >>,
     <<"payment_followup", <<"online", 700000>> >>,
     <<"policy_confirmation", <<"confirms_basic_details", 800000>> >>,
     <<"general_help", <<"policy_benefits", 700000>> >>,
     <<"rebuttals", <<"wants_payment_options", 700000>> >> >>

GenericAffirmatives ==
  <<<<"s", "u", "r", "e">>, <<"o", "k", "a", "y">>, <<"a", "l", "r", "i", "g", "h", "t">>, <<"f", "i", "n", "e">>, <<"p", "r", "o", "c", "e", "e", "d">>, <<"c", "o", "n", "t", "i", "n", "u", "e">>, <<"g", "o", " ", "a", "h", "e", "a", "d">>>>
GenericNegatives == <<<<"n", "a", "h">>, <<"n", "o", "p", "e">>, <<"n", "o", "t", " ", "r", "e", "a", "l", "l", "y">>, <<"n", "o", "t", " ", "n", "o", "w">>, <<"m", "a", "y", "b", "e", " ", "n", "o", "t">>>>

\* branch_mappings (lines 157-188), in dict order
BranchMappings ==
  << <<"payment_followup", <<<<"p", "a", "y">>, <<"p", "a", "y", "m", "e", "n", "t">>, <<"h", "o", "w", " ", "t", "o", " ", "p", "a", "y">>, <<"m", "o", "n", "e", "y">>, <<"c", "a", "r", "d">>, <<"o", "n", "l", "i", "n", "e">>, <<"u", "p", "i">>, <<"c", "h", "e", "q", "u", "e">>, <<"c", "o", "s", "t">>, <<"a", "m", "o", "u", "n", "t">>>> >>,
     <<"payment_inquiry", <<<<"c", "a", "n", "'", "t", " ", "p", "a", "y">>, <<"f", "i", "n", "a", "n", "c", "i", "a", "l", " ", "p", "r", "o", "b", "l", "e", "m">>, <<"d", "i", "f", "f", "i", "c", "u", "l", "t">>, <<"e", "x", "p", "e", "n", "s", "i", "v", "e">>, <<"b", "r", "o", "k", "e">>, <<"b", "u", "d", "g", "e", "t">>, <<"t", "i", "g", "h", "t">>>> >>,
     <<"payment_already_made", <<<<"a", "l", "r", "e", "a", "d", "y", " ", "p", "a", "i", "d">>, <<"p", "a", "i", "d">>, <<"d", "o", "n", "e">>, <<"c", "o", "m", "p", "l", "e", "t", "e", "d">>, <<"c", "l", "e", "a", "r", "e", "d">>, <<"s", "e", "t", "t", "l", "e", "d">>>> >>,
     <<"policy_confirmation", <<<<"p", "o", "l", "i", "c", "y", " ", "d", "e", "t", "a", "i", "l", "s">>, <<"w", "h", "a", "t", " ", "p", "o", "l", "i", "c", "y">>, <<"m", "y", " ", "p", "o", "l", "i", "c", "y">>, <<"b", "e", "n", "e", "f", "i", "t", "s">>, <<"c", "o", "v", "e", "r", "a", "g", "e">>, <<"d", "e", "t", "a", "i", "l", "s">>>> >>,
     <<"explain_policy_loss", <<<<"w", "h", "a", "t", " ", "h", "a", "p", "p", "e", "n", "s">>, <<"b", "e", "n", "e", "f", "i", "t", "s">>, <<"i", "m", "p", "o", "r", "t", "a", "n", "c", "e">>, <<"w", "h", "y">>, <<"e", "x", "p", "l", "a", "i", "n">>, <<"u", "n", "d", "e", "r", "s", "t", "a", "n", "d">>>> >>,
     <<"financial_problem_handling", <<<<"m", "o", "n", "e", "y", " ", "p", "r", "o", "b", "l", "e", "m">>, <<"f", "i", "n", "a", "n", "c", "i", "a", "l">>, <<"a", "f", "f", "o", "r", "d">>, <<"c", "r", "i", "s", "i", "s">>, <<"e", "x", "p", "e", "n", "s", "i", "v", "e">>>> >>,
     <<"rebuttals", <<<<"n", "o", "t", " ", "i", "n", "t", "e", "r", "e", "s", "t", "e", "d">>, <<"d", "o", "n", "'", "t", " ", "w", "a", "n", "t">>, <<"r", "e", "f", "u", "s", "e">>, <<"w", "o", "n", "'", "t", " ", "p", "a", "y">>, <<"c", "a", "n", "c", "e", "l">>>> >>,
     <<"reschedule_callback", <<<<"c", "a", "n", " ", "w", "e", " ", "s", "p", "e", "a", "k">>, <<"s", "p", "e", "a", "k", " ", "t", "o", "m", "o", "r", "r", "o", "w">>, <<"s", "p", "e", "a", "k", " ", "l", "a", "t", "e", "r">>, <<"c", "a", "l", "l", " ", "l", "a", "t", "e", "r">>, <<"n", "o", "t", " ", "n", "o", "w">>, <<"b", "u", "s", "y">>, <<"d", "i", "f", "f", "e", "r", "e", "n", "t", " ", "t", "i", "m", "e">>, <<"a", "n", "o", "t", "h", "e", "r", " ", "t", "i", "m", "e">>, <<"r", "e", "s", "c", "h", "e", "d", "u", "l", "e">>, <<"n", "o", "t", " ", "g", "o", "o", "d", " ", "t", "i", "m", "e">>>> >>,
     <<"schedule_callback", <<<<"t", "o", "m", "o", "r", "r", "o", "w">>, <<"n", "e", "x", "t", " ", "w", "e", "e", "k">>, <<"e", "v", "e", "n", "i", "n", "g">>, <<"m", "o", "r", "n", "i", "n", "g">>, <<"w", "e", "e", "k", "e", "n", "d">>>> >>,
     <<"scenario_market_high", <<<<"m", "a", "r", "k", "e", "t">>, <<"v", "o", "l", "a", "t", "i", "l", "e">>, <<"r", "i", "s", "k", "y">>, <<"u", "n", "s", "t", "a", "b", "l", "e">>>> >>,
     <<"scenario_emergency_needs", <<<<"e", "m", "e", "r", "g", "e", "n", "c", "y">>, <<"m", "e", "d", "i", "c", "a", "l">>, <<"u", "r", "g", "e", "n", "t">>, <<"h", "o", "s", "p", "i", "t", "a", "l">>>> >>,
     <<"scenario_better_alternatives", <<<<"m", "u", "t", "u", "a", "l", " ", "f", "u", "n", "d">>, <<"f", "d">>, <<"b", "e", "t", "t", "e", "r", " ", "o", "p", "t", "i", "o", "n">>, <<"a", "l", "t", "e", "r", "n", "a", "t", "i", "v", "e">>>> >>,
     <<"scenario_low_returns", <<<<"p", "o", "o", "r", " ", "r", "e", "t", "u", "r", "n", "s">>, <<"l", "o", "w", " ", "r", "e", "t", "u", "r", "n", "s">>, <<"l", "o", "s", "s">>, <<"n", "o", "t", " ", "p", "r", "o", "f", "i", "t", "a", "b", "l", "e">>>> >>,
     <<"general_help", <<<<"h", "e", "l", "p">>, <<"c", "o", "n", "f", "u", "s", "e", "d">>, <<"d", "o", "n", "'", "t", " ", "u", "n", "d", "e", "r", "s", "t", "a", "n", "d">>, <<"e", "x", "p", "l", "a", "i", "n">>, <<"c", "l", "a", "r", "i", "f", "y">>>> >>,
     <<"policy_bond_help", <<<<"p", "o", "l", "i", "c", "y", " ", "d", "o", "c", "u", "m", "e", "n", "t">>, <<"b", "o", "n", "d">>, <<"p", "a", "p", "e", "r", "s">>, <<"c", "e", "r", "t", "i", "f", "i", "c", "a", "t", "e">>>> >>,
     <<"default_fallback", <<<<"u", "n", "c", "l", "e", "a", "r">>, <<"o", "t", "h", "e", "r">>, <<"d", "i", "f", "f", "e", "r", "e", "n", "t">>>> >>,
     <<"unexpected_response_handler", <<<<"s", "p", "e", "c", "i", "f", "i", "c", " ", "c", "o", "n", "c", "e", "r", "n">>, <<"e", "l", "a", "b", "o", "r", "a", "t", "e">>, <<"d", "i", "s", "c", "u", "s", "s">>>> >> >>

\* the typo branches of lines 208-227, taken when the keyword itself is
\* not in the input
VariantHit(name, kw, inp) ==
  \/ /\ name = "schedule_callback"
     /\ \/ kw = <<"t", "o", "m", "o", "r", "r", "o", "w">> /\ ContainsAny(inp, <<<<"t", "o", "m", "m", "o", "r", "o", "w">>, <<"t", "o", "m", "o", "r", "o", "w">>, <<"t", "o", "m", "o", "r", "r", "r", "o", "w">>, <<"t", "o", "m", "m", "o", "r", "r", "o", "w">>>>)
        \/ kw = <<"e", "v", "e", "n", "i", "n", "g">> /\ ContainsAny(inp, <<<<"e", "v", "e", "n", "i", "g">>, <<"e", "v", "n", "i", "n", "g">>, <<"e", "v", "e", "n", "g">>>>)
        \/ kw = <<"m", "o", "r", "n", "i", "n", "g">> /\ ContainsAny(inp, <<<<"m", "o", "r", "n", "i", "g">>, <<"m", "o", "r", "n", "g">>, <<"m", "o", "r", "i", "n", "g">>>>)
  \/ /\ name = "reschedule_callback"
     /\ \/ kw = <<"s", "p", "e", "a", "k", " ", "t", "o", "m", "o", "r", "r", "o", "w">> /\ ContainsAny(inp, <<<<"s", "p", "e", "a", "k", " ", "t", "o", "m", "m", "o", "r", "o", "w">>, <<"s", "p", "e", "a", "k", " ", "t", "o", "m", "o", "r", "o", "w">>, <<"t", "a", "l", "k", " ", "t", "o", "m", "o", "r", "r", "o", "w">>, <<"t", "a", "l", "k", " ", "t", "o", "m", "m", "o", "r", "o", "w">>>>)
        \/ kw = <<"c", "a", "n", " ", "w", "e", " ", "s", "p", "e", "a", "k">> /\ ContainsAny(inp, <<<<"c", "a", "n", " ", "w", "e", " ", "t", "a", "l", "k">>, <<"c", "o", "u", "l", "d", " ", "w", "e", " ", "s", "p", "e", "a", "k">>, <<"c", "o", "u", "l", "d", " ", "w", "e", " ", "t", "a", "l", "k">>>>)
        \/ kw = <<"c", "a", "l", "l", " ", "b", "a", "c", "k">> /\ ContainsAny(inp, <<<<"c", "a", "l", "l", "b", "a", "c", "k">>, <<"c", "a", "l", "l", "-", "b", "a", "c", "k">>, <<"c", "a", "l", "l", " ", "m", "e", " ", "b", "a", "c", "k">>, <<"c", "a", "l", "l", " ", "l", "a", "t", "e", "r">>>>)
        \/ kw = <<"d", "i", "f", "f", "e", "r", "e", "n", "t", " ", "t", "i", "m", "e">> /\ ContainsAny(inp, <<<<"o", "t", "h", "e", "r", " ", "t", "i", "m", "e">>, <<"a", "n", "o", "t", "h", "e", "r", " ", "t", "i", "m", "e">>, <<"d", "i", "f", "f", " ", "t", "i", "m", "e">>>>)

\* priority_boost of lines 233-239, in tenths
PriorityBoost(name, inp) ==
  IF name = "reschedule_callback"
     /\ ContainsAny(inp, <<<<"c", "a", "n", " ", "w", "e", " ", "s", "p", "e", "a", "k">>, <<"s", "p", "e", "a", "k", " ", "t", "o", "m", "o", "r", "r", "o", "w">>, <<"n", "o", "t", " ", "g", "o", "o", "d", " ", "t", "i", "m", "e">>>>)
  THEN 15
  ELSE IF name = "schedule_callback" /\ Contains(inp, <<"t", "o", "m", "o", "r", "r", "o", "w">>)
          /\ ~ContainsAny(inp, <<<<"c", "a", "n", " ", "w", "e">>, <<"s", "p", "e", "a", "k">>, <<"n", "o", "t", " ", "n", "o", "w">>, <<"b", "u", "s", "y">>>>)
  THEN 12
  ELSE 10

\* final_score of one row of the table, 0 when nothing matches
MappingScore(name, kws, inp) ==
  LET matches == Cardinality({j \in DOMAIN kws :
                    Contains(inp, kws[j]) \/ VariantHit(name, kws[j], inp)})
  IN (((matches * Unit) \div Len(kws)) * PriorityBoost(name, inp)) \div 10

BetterBranch(prev, name, score) ==
  IF score > prev.conf THEN [branch |-> name, conf |-> score] ELSE prev

\* the loop of lines 193-244 over the first n rows
RECURSIVE MappingLoop(_, _, _, _)
MappingLoop(b, inp, stage, n) ==
  IF n = 0 THEN [branch |-> Null, conf |-> 0]
  ELSE LET name == BranchMappings[n][1] IN
       IF name # stage /\ Has(b, name)
       THEN BetterBranch(MappingLoop(b, inp, stage, n - 1), name,
                         MappingScore(name, BranchMappings[n][2], inp))
       ELSE MappingLoop(b, inp, stage, n - 1)

\* find_appropriate_existing_branch(user_input, current_stage)
FindAppropriateExistingBranch(b, u, stage) ==
  LET inp == Lower(u)
      best == MappingLoop(b, inp, stage, Len(BranchMappings))
  IN IF /\ ContainsAny(inp, GenericAffirmatives)
        /\ Has(ContextMappings, stage)
        /\ Has(StageRules(b, stage), Get(ContextMappings, stage)[1])
     THEN [branch |-> Get(ContextMappings, stage)[1],
           conf |-> Get(ContextMappings, stage)[2]]
     ELSE IF ContainsAny(inp, GenericNegatives)
     THEN [branch |-> "reschedule", conf |-> 600000]
     ELSE IF best.conf >= 100000 THEN best
     ELSE [branch |-> Null, conf |-> 0]

\* ------------------------------------------------------------------------
\* ConversationFlowController
\* ------------------------------------------------------------------------
\* a value Python takes as false where the code tests a stage or a text
Falsy(v) == v \in {Null, Absent, ""}

\* the text of an utterance, as it is written into a prompt
RECURSIVE Text(_)
Text(u) == IF u = <<>> THEN "" ELSE Head(u) \o Text(Tail(u))

\* What send_to_gemini hands back, as far as extract_metadata reads it:
\* no metadata block at all (the fixed apology of a failed call is one
\* such reply), the RESPONSE FORMAT of the prompt filled in as given, or a
\* block of the generator's own making that moves to closure and suggests
\* a branch named closure.  Of "update" only conversation_stage is kept.
GenSilent == "silent"
GenTemplate == "template"
GenFree == "free"

\* the stages the analysis prompt is filled in for
TemplateStages == Keys(Graph0)

\* suggestion_details of the analysis prompt (lines 164-183)
TemplateDetails(b, u, stage) ==
  << stage \o "_handled", "handle_unexpected_from_" \o stage, "p_handled",
     << <<"positive", Rule("policy_confirmation", "r_positive", <<>>)>>,
        <<"negative", Rule("closure", "r_negative", <<>>)>> >>,
     TRUE,
     <<CwEntry(IF Has(b, stage) THEN Get(b, stage).intent ELSE "",
               "unexpected_response", Text(u))>> >>
FreeDetails == <<"closure", "close", "p_closure2", <<>>, FALSE, CwNone>>

\* what a step of the controller returns: the session it leaves, the
\* suggestion log, whether create_branch was called and what it returned,
\* the metadata, and the step and path that returned
TurnResult(s, log, called, created, meta, step, path) ==
  [s |-> s, log |-> log, called |-> called, created |-> created,
   meta |-> meta, step |-> step, path |-> path, via |-> Null]

\* steps 1 and 2 with a generator whose reply is always read as the
\* RESPONSE FORMAT filled in, whatever came back
RedirectOrSuggestEager(b, log, stage, s, g, found, c) ==
  IF found.branch # Null /\ found.conf >= 200000 /\ Has(b, found.branch)
  THEN [TurnResult(s, log, FALSE, FALSE, Meta(found.branch, FALSE, FALSE),
                   "analysis", "redirect") EXCEPT !.via = found.branch]
  ELSE TurnResult(s, c.log, TRUE, c.ok, Meta(stage \o "_handled", FALSE, FALSE),
                  "analysis", "suggest")

\* steps 1 and 2 of analyze_user_response_and_suggest (lines 45-216) on
\* what find_appropriate_existing_branch found and on what create_branch
\* does with the generator's suggestion
RedirectOrSuggest(b, log, stage, s, g, found, c) ==
  IF found.branch # Null /\ found.conf >= 200000 /\ Has(b, found.branch)
  THEN [TurnResult(s, log, FALSE, FALSE,
                   IF g = GenSilent THEN NoMeta
                   ELSE IF g = GenTemplate THEN Meta(found.branch, FALSE, FALSE)
                   ELSE Meta("closure", FALSE, FALSE),
                   "analysis", "redirect") EXCEPT !.via = found.branch]
  ELSE IF g = GenSilent
  THEN TurnResult(s, log, FALSE, FALSE, NoMeta, "analysis", "suggest")
  ELSE TurnResult(s, c.log, TRUE, c.ok,
                  Meta(IF g = GenTemplate THEN stage \o "_handled" ELSE "closure",
                       FALSE, FALSE),
                  "analysis", "suggest")

\* analyze_user_response_and_suggest (lines 24-216)
AnalyzeUserResponseAndSuggest(b, log, u, stage, s, g) ==
  IF s.returned
  THEN TurnResult([s EXCEPT !.returned = FALSE], log, FALSE, FALSE,
                  Meta(stage, FALSE, FALSE), "analysis", "gentle_redirect")
  ELSE RedirectOrSuggest(b, log, stage, s, g,
         FindAppropriateExistingBranch(b, u, stage),
         CreateBranchResult(b, log,
           IF g = GenTemplate THEN TemplateDetails(b, u, stage) ELSE FreeDetails))

CallbackAffirmative == <<<<"y", "e", "s">>, <<"y", "e", "a", "h">>, <<"s", "u", "r", "e">>, <<"o", "k">>, <<"o", "k", "a", "y">>, <<"c", "o", "n", "t", "i", "n", "u", "e">>, <<"p", "r", "o", "c", "e", "e", "d">>>>

\* the gate of lines 280-283 with _handle_callback_confirmation
CallbackPending(s) == s.isCallback /\ s.cbContinuation /\ ~s.cbConfirmed
\* a confirmation that takes any answer as a yes
HandleCallbackConfirmationAny(u, s) == Meta(Absent, TRUE, FALSE)

HandleCallbackConfirmation(u, s) ==
  IF ContainsAny(Lower(u), CallbackAffirmative)
  THEN Meta(Absent, TRUE, FALSE)
  ELSE NoMeta

ResponseWords == <<<<"y", "e", "s">>, <<"n", "o">>, <<"o", "k">>, <<"o", "k", "a", "y">>, <<"s", "u", "r", "e">>>>
QuestionWords == <<<<"w", "h", "e", "r", "e">>, <<"h", "o", "w">>, <<"w", "h", "y">>, <<"w", "h", "a", "t">>, <<"w", "h", "o">>, <<"w", "h", "e", "n">>>>

\* lines 353-396: the interruption was handled, h is what
\* handle_interruption returned
Interrupted(log, stage, name, h) ==
  LET intelligent == IntelligentResumeStage(h.s)
      resume == IF Falsy(intelligent) THEN stage ELSE intelligent
  IN IF IsCriticalInterruption(name)
     THEN TurnResult(h.s, log, FALSE, FALSE, h.meta, "interruption", "critical")
     ELSE IF h.resume /\ Has(Intents, name) /\ Get(Intents, name).rtmf
     THEN TurnResult([h.s EXCEPT !.returned = @ \/ resume # stage], log, FALSE, FALSE,
                     [h.meta EXCEPT !.update = resume], "interruption", "resume")
     ELSE TurnResult(h.s, log, FALSE, FALSE, h.meta, "interruption", "stay")

\* lines 398-436: m is what check_if_response_matches_expected returned
MatchOrAnalyze(b, log, u, stage, s, g, m) ==
  IF m.matches
  THEN IF ~Falsy(m.response)
       THEN [TurnResult(s, log, FALSE, FALSE,
                        Meta(IF Falsy(m.next) THEN stage ELSE m.next, FALSE, FALSE),
                        "match", "scripted") EXCEPT !.via = m.type]
       \* the metadata is read from the reply after its json block was
       \* cut off (lines 421-423): it is always empty
       ELSE [TurnResult(s, log, FALSE, FALSE, NoMeta, "match", "generated")
               EXCEPT !.via = m.type]
  ELSE AnalyzeUserResponseAndSuggest(b, log, u, stage, s, g)

\* lines 336-436 on a session that is in no interruption flow: d is what
\* detect_interruption returned
NormalFlow(b, log, u, stage, s, g, d, m) ==
  IF \/ d.is
     \/ /\ ContainsAny(Lower(u), ResponseWords) /\ ContainsAny(Lower(u), QuestionWords)
        /\ d.conf >= 300000
  THEN [Interrupted(log, stage, d.intent, HandleInterruption(d.intent, stage, s))
          EXCEPT !.via = d.intent]
  ELSE MatchOrAnalyze(b, log, u, stage, s, g, m)

\* lines 285-301: f is what handle_interruption_response returned
FollowUp(log, f) ==
  TurnResult(IF f.resolved THEN [f.s EXCEPT !.stage = f.meta.update] ELSE f.s,
             log, FALSE, FALSE, f.meta, "followup", f.path)

\* lines 303-436: m is what check_if_response_matches_expected returns
\* for the utterance on the stage, at line 308 and again at line 399
PostInterruption(b, log, u, s, g, m) ==
  IF s.returned /\ ~m.matches /\ Has(b, s.stage) /\ ~Falsy(Get(b, s.stage).prompt)
  THEN TurnResult([s EXCEPT !.returned = FALSE], log, FALSE, FALSE,
                  Meta(s.stage, FALSE, FALSE), "clarification", "none")
  ELSE NormalFlow(b, log, u, s.stage, [s EXCEPT !.returned = FALSE], g,
                  DetectInterruption(u, s.stage, 400000), m)

\* a turn that goes on to detection whether or not an interruption is open
ProcessConversationTurnNested(b, log, u, s, g) ==
  IF CallbackPending(s)
  THEN TurnResult(s, log, FALSE, FALSE, HandleCallbackConfirmation(u, s),
                  "callback", "none")
  ELSE PostInterruption(b, log, u, s, g,
                        CheckIfResponseMatchesExpected(b, u, s.stage))

\* process_conversation_turn(user_input, current_stage, session_data)
ProcessConversationTurn(b, log, u, s, g) ==
  IF CallbackPending(s)
  THEN TurnResult(s, log, FALSE, FALSE, HandleCallbackConfirmation(u, s),
                  "callback", "none")
  ELSE IF s.ci.set
  THEN FollowUp(log, HandleInterruptionResponse(u, s))
  ELSE PostInterruption(b, log, u, s, g,
                        CheckIfResponseMatchesExpected(b, u, s.stage))

\* session_manager.is_conversation_complete
ClosureBranches ==
  {"closure", "payment_success_closure", "complaint_resolution_closure",
   "schedule_callback"}

\* ------------------------------------------------------------------------
\* The conversation loop of agent.py (run_conversation_for_customer) over
\* the store the agent was built with, with staging calls made on that
\* same store between turns
\* ------------------------------------------------------------------------
\* what the customer says
Utterances ==
  {<<"Y", "e", "s">>, <<"a", "g", "a", "i", "n">>, <<"o", "k", " ", "t", "h", "a", "n", "k", "s">>, <<"h", "m", "m">>, <<"b", "u", "s", "y">>, <<"t", "o", "m", "o", "r", "r", "o", "w">>, <<"c", "o", "n", "t", "i", "n", "u", "e">>,
   <<"c", "o", "m", "p", "l", "a", "i", "n", "t">>, <<"o", "t", "h", "e", "r", " ", "p", "o", "l", "i", "c", "i", "e", "s">>, <<"w", "h", "a", "t">>, <<"m", "y", " ", "p", "o", "l", "i", "c", "y", " ", "d", "e", "t", "a", "i", "l", "s">>, <<"c", "o", "r", "r", "e", "c", "t">>,
   <<"p", "o", "l", "i", "c", "y", " ", "b", "o", "n", "d">>}

\* what the customer says and what the generator answers when the turn
\* asks it: it stays silent on any utterance, and answers the two
\* utterances no stage expects with a metadata block
TurnInputs ==
  {<<u, GenSilent>> : u \in Utterances}
    \cup {<<u, g>> : u \in {<<"h", "m", "m">>, <<"m", "y", " ", "p", "o", "l", "i", "c", "y", " ", "d", "e", "t", "a", "i", "l", "s">>},
                     g \in {GenTemplate, GenFree}}

\* operations pending at most while conversations run
MaxPending == 1

QuitWords == {<<"q", "u", "i", "t">>, <<"e", "x", "i", "t">>, <<"e", "n", "d">>}

\* the stage a callback session resumes on: the stage the customer's last
\* conversation recorded, policy_confirmation when that was closure
\* (_get_session_data_for_callback, lines 354-357)
CallbackStages == {"policy_confirmation"}

\* a conversation starts on a session written by
\* create_session_files_for_customer for a customer without a callback
StartConversation ==
  /\ ~session.running
  /\ session' = Session("greeting", FALSE)
  /\ turn' = [NoTurn EXCEPT !.tick = turn.tick]
  /\ ret' = Ret("start", TRUE, 0, 0, NoReport, FALSE)
  /\ UNCHANGED <<branches, suggestions, fileB, fileS, opBuf, committed>>

\* a conversation starts for a customer whose callback is scheduled; the
\* callback greeting sets callback_continuation (agent.py lines 120-147)
StartCallback(stage) ==
  /\ ~session.running
  /\ session' = [Session(stage, TRUE) EXCEPT !.cbScheduled = TRUE]
  /\ turn' = [NoTurn EXCEPT !.tick = turn.tick]
  /\ ret' = Ret("start", TRUE, 0, 0, NoReport, FALSE)
  /\ UNCHANGED <<branches, suggestions, fileB, fileS, opBuf, committed>>

\* 'quit', 'exit' or 'end' leaves the loop (lines 181-185)
Quit ==
  /\ session.running
  /\ session' = [session EXCEPT !.running = FALSE]
  /\ ret' = Ret("quit", TRUE, 0, 0, NoReport, FALSE)
  /\ UNCHANGED <<branches, suggestions, fileB, fileS, opBuf, committed, turn>>

\* the paths of a turn on which send_to_gemini is called (lines 88, 190, 420)
GeneratorPaths == {"redirect", "suggest", "generated"}

\* one pass of the loop on a non-empty utterance (lines 187-259): the
\* controller's turn, then metadata["update"] written to the session and
\* the closure check
Turn(u, g) ==
  /\ session.running
  /\ Lower(u) \notin QuitWords
  /\ Strip(u) # <<>>
  /\ \E r \in {ProcessConversationTurn(branches, suggestions, u, session, g)} :
     LET stage1 == IF r.meta.update = Absent THEN r.s.stage ELSE r.meta.update
     IN /\ r.called => Len(suggestions) < MaxPending
        /\ (r.called /\ g = GenTemplate) => session.stage \in TemplateStages
        /\ session' = [r.s EXCEPT !.stage = stage1,
                                  !.cbConfirmed = @ \/ r.meta.confirmed,
                                  !.cbScheduled = @ \/ r.meta.scheduled,
                                  !.running = stage1 \notin ClosureBranches]
        /\ turn' = [TurnRecord(r.step, r.path, session.stage, ~turn.tick)
                      EXCEPT !.via = r.via,
                             !.gen = IF r.path \in GeneratorPaths THEN g ELSE Null]
        /\ suggestions' = r.log
        /\ fileS' = IF r.created THEN Whole(r.log) ELSE fileS
        /\ ret' = Ret("process_conversation_turn", r.created, 0, 0, NoReport, FALSE)
        /\ UNCHANGED <<branches, fileB, opBuf, committed>>

InitTurns ==
  /\ fileB = Whole(Graph0)
  /\ fileS = Whole(<<>>)
  /\ branches = LoadBranches(fileB)
  /\ suggestions = LoadSuggestions(fileS)
  /\ opBuf = <<>>
  /\ committed = branches
  /\ ret = Ret("init", TRUE, 0, 0, NoReport, FALSE)
  /\ session = NoSession
  /\ turn = NoTurn

NextTurns ==
  \/ StartConversation
  \/ \E stage \in CallbackStages : StartCallback(stage)
  \/ Quit
  \/ \E i \in TurnInputs : Turn(i[1], i[2])
  \/ Len(suggestions) < MaxPending /\ \E a \in CreateArgs : ProposeCreate(a)
  \/ Len(suggestions) < MaxPending /\ \E a \in UpdateArgs : ProposeUpdate(a)
  \/ Len(suggestions) < MaxPending /\ \E n \in DeleteArgs : ProposeDelete(n)

SpecTurns == InitTurns /\ [][NextTurns]_vars

\* ------------------------------------------------------------------------
\* The conversation loop alone, for a customer without a callback: no
\* staging call is made between the turns, and the customer also says what
\* raises the jump, commitment and compound interruptions
\* ------------------------------------------------------------------------
DialogUtterances ==
  {<<"Y", "e", "s">>, <<"n", "o">>, <<"c", "o", "r", "r", "e", "c", "t">>, <<"p", "o", "l", "i", "c", "y", " ", "b", "o", "n", "d">>, <<"h", "m", "m">>, <<"m", "y", " ", "p", "o", "l", "i", "c", "y", " ", "d", "e", "t", "a", "i", "l", "s">>, <<"n", "o", "p", "e">>,
   <<"a", "g", "a", "i", "n">>, <<"o", "k", " ", "t", "h", "a", "n", "k", "s">>, <<"b", "u", "s", "y">>, <<"t", "o", "m", "o", "r", "r", "o", "w">>, <<"c", "o", "m", "p", "l", "a", "i", "n", "t">>, <<"o", "t", "h", "e", "r", " ", "p", "o", "l", "i", "c", "i", "e", "s">>,
   <<"p", "a", "y", " ", "n", "o", "w">>, <<"a", "l", "r", "e", "a", "d", "y", " ", "p", "a", "i", "d">>, <<"I", " ", "w", "i", "l", "l", " ", "r", "e", "n", "e", "w">>,
   <<"y", "e", "s", ",", " ", "b", "u", "t", " ", "w", "h", "a", "t", " ", "i", "s", " ", "t", "h", "e", " ", "a", "d", "d", "r", "e", "s", "s", " ", "o", "f", " ", "y", "o", "u", "r", " ", "n", "e", "a", "r", "e", "s", "t", " ", "s", "e", "r", "v", "i", "c", "e", " ", "c", "e", "n", "t", "e", "r", ",", " ", "t", "e", "l", "l", " ", "m", "e", " ", "p", "l", "e", "a", "s", "e">>,
   <<"y", "e", "s", ",", " ", "h", "o", "w", " ", "d", "o", " ", "I", " ", "g", "e", "t", " ", "t", "h", "e", " ", "l", "i", "n", "k", " ", "f", "o", "r", " ", "m", "y", " ", "p", "r", "e", "m", "i", "u", "m", ",", " ", "t", "e", "l", "l", " ", "m", "e">>,
   <<"o", "k", ",", " ", "w", "h", "e", "n", " ", "I", " ", "r", "e", "n", "e", "w", " ", "I", " ", "g", "e", "t", " ", "w", "h", "a", "t", " ", "b", "e", "n", "e", "f", "i", "t", " ", "f", "o", "r", " ", "t", "h", "e", " ", "y", "e", "a", "r", ",", " ", "t", "e", "l", "l", " ", "m", "e">>}

\* the generator answers in each of its three ways an utterance no stage
\* expects, one that matches a rule without a scripted response and a
\* generic negative
DialogInputs ==
  {<<u, GenSilent>> : u \in DialogUtterances}
    \cup {<<u, g>> : u \in {<<"h", "m", "m">>, <<"p", "o", "l", "i", "c", "y", " ", "b", "o", "n", "d">>, <<"n", "o", "p", "e">>}, g \in {GenTemplate, GenFree}}

NextDialog ==
  \/ StartConversation
  \/ Quit
  \/ \E i \in DialogInputs : Turn(i[1], i[2])

SpecDialog == InitTurns /\ [][NextDialog]_vars

\* ------------------------------------------------------------------------
\* BranchesManager.validate_branch_structure: valid and the number of
\* entries of errors
\* ------------------------------------------------------------------------
\* a validation that looks at the required fields only
ValidateFieldsOnly(b, name) ==
  IF ~Has(b, name) THEN [valid |-> FALSE, nerr |-> 1]
  ELSE LET br == Get(b, name)
           n == (IF br.intent = Absent THEN 1 ELSE 0) + (IF br.prompt = Absent THEN 1 ELSE 0)
       IN [valid |-> n = 0, nerr |-> n]

\* lines 333-339: the rules whose next is given (truthy) and names no branch
DanglingRules(b, br) ==
  {j \in DOMAIN br.eur : ~Falsy(br.eur[j][2].next) /\ ~Has(b, br.eur[j][2].next)}

ValidateBranchStructure(b, name) ==
  IF ~Has(b, name) THEN [valid |-> FALSE, nerr |-> 1]
  ELSE LET br == Get(b, name)
           n == (IF br.intent = Absent THEN 1 ELSE 0) + (IF br.prompt = Absent THEN 1 ELSE 0)
                + (IF br.hasEur THEN Cardinality(DanglingRules(b, br)) ELSE 0)
       IN [valid |-> n = 0, nerr |-> n]

\* validate_branch_structure(name) on the store in use; report names the
\* branch asked about
Validate(name) ==
  LET v == ValidateBranchStructure(branches, name) IN
  /\ ret' = Ret("validate_branch_structure", v.valid, 0, v.nerr,
                [all |-> FALSE, tried |-> <<name>>], FALSE)
  /\ UNCHANGED <<branches, suggestions, fileB, fileS, opBuf, committed, sessionVars>>

\* ------------------------------------------------------------------------
\* The store under operations that carry called_when lists and change
\* intents, over a branch document as the flow controller leaves it or one
\* written by hand
\* ------------------------------------------------------------------------
\* pending operations at a time
MaxOps == 1

CwFromGreet == <<CwEntry("greet", "yes", "r_yes")>>
CwFromClose == <<CwEntry("close", "thanks", Null)>>

EurFaq == << <<"more", Rule("help", "r_more", <<>>)>> >>

\* a branch without intent, as only a document written by hand holds one
BranchLegacy ==
  Branch(Absent, "p_legacy", TRUE, << <<"back", Rule("greeting", Null, <<>>)>> >>, Absent)

GraphLegacy == Append(Graph0, <<"legacy", BranchLegacy>>)

GraphCreateArgs ==
  { <<"help", "greet", "p_help", <<>>, TRUE, CwFromGreet>>,
    <<"faq", "faq", "p_faq", EurFaq, TRUE, CwFromClose>> }

GraphUpdateArgs ==
  { <<"policy_confirmation", "greet", Absent, FALSE, <<>>, Absent, TRUE, CwFromGreet>>,
    <<"greeting", Absent, Absent, FALSE, <<>>, Absent, TRUE, CwFromClose>> }

GraphDeleteArgs == {"greeting", "help"}

GraphNames == {"greeting", "policy_confirmation", "closure", "help", "faq", "legacy"}

InitGraph ==
  /\ fileB \in {Whole(Graph0), Whole(GraphLegacy)}
  /\ fileS = Whole(<<>>)
  /\ branches = LoadBranches(fileB)
  /\ suggestions = LoadSuggestions(fileS)
  /\ opBuf = <<>>
  /\ committed = branches
  /\ ret = Ret("init", TRUE, 0, 0, NoReport, FALSE)
  /\ session = NoSession
  /\ turn = NoTurn

NextGraph ==
  \/ Len(suggestions) < MaxOps /\ \E a \in GraphCreateArgs : ProposeCreate(a)
  \/ Len(suggestions) < MaxOps /\ \E a \in GraphUpdateArgs : ProposeUpdate(a)
  \/ Len(suggestions) < MaxOps /\ \E n \in GraphDeleteArgs : ProposeDelete(n)
  \/ \E verbose \in BOOLEAN : Apply(SelAll, verbose)
  \/ Preview
  \/ \E n \in GraphNames : Validate(n)

SpecGraph == InitGraph /\ [][NextGraph]_vars

\* ------------------------------------------------------------------------
\* ResponseAnalyzer.check_if_response_matches_expected as a function of the
\* branch document, the stage and the utterance
\* ------------------------------------------------------------------------
\* a stage whose first rule has no keywords and is named like a generic
\* pattern, followed by a keyworded rule and another generic one
BranchStatus ==
  Branch("explain_status", "p_status", TRUE,
         << <<"no", Rule("closure", "r_no", <<>>)>>,
            <<"wants_to_proceed", Rule("policy_confirmation", "r_proceed", <<<<"P", "r", "o", "c", "e", "e", "d">>>>)>>,
            <<"yes", Rule("policy_confirmation", Null, <<>>)>> >>, Absent)

GraphStatus == Append(Graph0, <<"policy_status_explanation", BranchStatus>>)

MatchStages ==
  {"greeting", "policy_confirmation", "policy_status_explanation", "closure", "unknown_stage"}

MatchUtterances ==
  {<<"Y", "e", "s", ",", " ", "s", "p", "e", "a", "k", "i", "n", "g">>, <<"s", "p", "e", "a", "k", "i", "n", "g">>, <<"n", "o">>, <<"C", "o", "r", "r", "e", "c", "t">>, <<"n", "o", "t", " ", "c", "o", "r", "r", "e", "c", "t">>, <<"c", "o", "r", "r", "e", "c", "t", ",", " ", "p", "o", "l", "i", "c", "y", " ", "b", "o", "n", "d">>,
   <<"I", " ", "d", "o", "n", "'", "t", " ", "h", "a", "v", "e", " ", "p", "o", "l", "i", "c", "y", " ", "b", "o", "n", "d">>, <<"o", "k">>, <<"n", "o", " ", "q", "u", "e", "s", "t", "i", "o", "n", "s">>, <<"n", "o", ",", " ", "p", "r", "o", "c", "e", "e", "d">>, <<"n", "o", " ", "p", "r", "o", "c", "e", "e", "d">>,
   <<"N", "o", ",", " ", "I", " ", "d", "o", "n", "'", "t", " ", "h", "a", "v", "e", " ", "t", "h", "e", " ", "p", "o", "l", "i", "c", "y", " ", "b", "o", "n", "d">>, <<"N", "O", "T", " ", "N", "O", "W">>, <<"h", "m", "m">>, <<>>}

\* check_if_response_matches_expected(u, stage of the session); report
\* holds the utterance and the values returned after matches
Match(u) ==
  LET r == CheckIfResponseMatchesExpected(branches, u, session.stage) IN
  /\ ret' = Ret("check_if_response_matches_expected", r.matches, 0, 0,
                [all |-> FALSE, tried |-> <<u, r.type, r.response, r.next>>], FALSE)
  /\ UNCHANGED <<branches, suggestions, fileB, fileS, opBuf, committed, sessionVars>>

\* detect_interruption(u, stage of the session, threshold); report holds
\* the utterance, the intent and confidence returned, and the threshold
DetectUtterances ==
  {<<"b", "u", "s", "y">>, <<"a", "g", "a", "i", "n">>, <<"R", "e", "p", "e", "a", "t", " ", "a", "g", "a", "i", "n">>, <<"I", " ", "a", "m", " ", "b", "u", "s", "y", ",", " ", "s", "a", "y", " ", "i", "t", " ", "a", "g", "a", "i", "n", " ", "p", "l", "e", "a", "s", "e">>, <<"o", "t", "h", "e", "r", " ", "p", "o", "l", "i", "c", "i", "e", "s">>,
   <<"o", "t", "h", "e", "r", " ", "p", "o", "l", "i", "c", "i", "e", "s", " ", "a", "g", "a", "i", "n">>, <<"c", "o", "m", "p", "l", "a", "i", "n", "t">>, <<"I", " ", "h", "a", "v", "e", " ", "a", " ", "c", "o", "m", "p", "l", "a", "i", "n", "t", " ", "a", "b", "o", "u", "t", " ", "o", "t", "h", "e", "r", " ", "p", "o", "l", "i", "c", "i", "e", "s">>, <<"h", "m", "m">>, <<"p", "l", "e", "a", "s", "e", " ", "c", "o", "u", "l", "d", " ", "y", "o", "u", " ", "s", "a", "y", " ", "t", "h", "a", "t", " ", "a", "g", "a", "i", "n", " ", "f", "o", "r", " ", "m", "e", ",", " ", "I", " ", "d", "i", "d", " ", "n", "o", "t", " ", "h", "e", "a", "r", " ", "y", "o", "u">>,
   <<>>}

\* confidence_threshold: the default and the two the controller's tests use
Thresholds == {300000, 400000, 600000}

Detect(u, threshold) ==
  LET d == DetectInterruption(u, session.stage, threshold) IN
  /\ ret' = Ret("detect_interruption", d.is, 0, 0,
                [all |-> FALSE, tried |-> <<u, d.intent, d.conf, threshold>>], FALSE)
  /\ UNCHANGED <<branches, suggestions, fileB, fileS, opBuf, committed, sessionVars>>

\* find_appropriate_existing_branch(u, stage of the session); report holds
\* the utterance and the branch and confidence returned
FindUtterances ==
  {<<"n", "o", "p", "e">>, <<"m", "y", " ", "p", "o", "l", "i", "c", "y", " ", "d", "e", "t", "a", "i", "l", "s">>, <<"w", "h", "a", "t", " ", "a", "r", "e", " ", "t", "h", "e", " ", "b", "e", "n", "e", "f", "i", "t", "s">>, <<"s", "u", "r", "e">>, <<"N", "o", "t", " ", "r", "e", "a", "l", "l", "y">>,
   <<"c", "a", "n", " ", "I", " ", "p", "a", "y", " ", "b", "y", " ", "c", "a", "r", "d">>, <<"t", "o", "m", "o", "r", "r", "o", "w", " ", "e", "v", "e", "n", "i", "n", "g">>, <<"h", "m", "m">>, <<>>}

FindBranch(u) ==
  LET f == FindAppropriateExistingBranch(branches, u, session.stage) IN
  /\ ret' = Ret("find_appropriate_existing_branch", f.branch # Null, 0, 0,
                [all |-> FALSE, tried |-> <<u, f.branch, f.conf>>], FALSE)
  /\ UNCHANGED <<branches, suggestions, fileB, fileS, opBuf, committed, sessionVars>>

InitMatch ==
  /\ fileB \in {Whole(Graph0), Whole(GraphStatus)}
  /\ fileS = Whole(<<>>)
  /\ branches = LoadBranches(fileB)
  /\ suggestions = LoadSuggestions(fileS)
  /\ opBuf = <<>>
  /\ committed = branches
  /\ ret = Ret("init", TRUE, 0, 0, NoReport, FALSE)
  /\ session \in {Session(st, FALSE) : st \in MatchStages}
  /\ turn = NoTurn

NextMatch ==
  \/ \E u \in MatchUtterances : Match(u)
  \/ \E u \in DetectUtterances, th \in Thresholds : Detect(u, th)
  \/ \E u \in FindUtterances : FindBranch(u)

SpecMatch == InitMatch /\ [][NextMatch]_vars

\* ------------------------------------------------------------------------
\* The conversation loop over a branch document in which the END_CALL
\* action and the names is_conversation_complete knows do not coincide:
\* wrong_number carries END_CALL, schedule_callback carries no action
\* ------------------------------------------------------------------------
BranchGreetingEnd ==
  Branch("greet", "p_greeting", TRUE,
         << <<"yes", Rule("policy_confirmation", "r_ok", <<<<"y", "e", "s">>, <<"s", "p", "e", "a", "k", "i", "n", "g">>>>)>>,
            <<"no", Rule("wrong_number", "r_sorry", <<>>)>> >>, Absent)
BranchConfirmationEnd ==
  Branch("confirm", "p_confirmation", TRUE,
         << <<"confirms", Rule("closure", "r_confirmed", <<<<"c", "o", "r", "r", "e", "c", "t">>>>)>>,
            <<"later", Rule("schedule_callback", "r_when", <<<<"e", "v", "e", "n", "i", "n", "g">>>>)>> >>, Absent)
BranchWrongNumber == Branch("wrong_number", "p_wrong", FALSE, <<>>, "END_CALL")
BranchScheduleCallback ==
  Branch("callback", "p_when", TRUE,
         << <<"time", Rule("closure", "r_noted", <<<<"p", "m">>>>)>> >>, Absent)

GraphEnd ==
  << <<"greeting", BranchGreetingEnd>>,
     <<"policy_confirmation", BranchConfirmationEnd>>,
     <<"wrong_number", BranchWrongNumber>>,
     <<"schedule_callback", BranchScheduleCallback>>,
     <<"closure", BranchClosure>> >>

EndUtterances == {<<"Y", "e", "s">>, <<"n", "o">>, <<"c", "o", "r", "r", "e", "c", "t">>, <<"i", "n", " ", "t", "h", "e", " ", "e", "v", "e", "n", "i", "n", "g">>, <<"5", " ", "p", "m">>, <<"h", "m", "m">>, <<"a", "g", "a", "i", "n">>, <<"o", "k", " ", "t", "h", "a", "n", "k", "s">>, <<"b", "u", "s", "y">>, <<"t", "o", "m", "o", "r", "r", "o", "w">>}

InitEnd ==
  /\ fileB = Whole(GraphEnd)
  /\ fileS = Whole(<<>>)
  /\ branches = LoadBranches(fileB)
  /\ suggestions = LoadSuggestions(fileS)
  /\ opBuf = <<>>
  /\ committed = branches
  /\ ret = Ret("init", TRUE, 0, 0, NoReport, FALSE)
  /\ session = NoSession
  /\ turn = NoTurn

NextEnd ==
  \/ StartConversation
  \/ Quit
  \/ \E u \in EndUtterances : Turn(u, GenSilent)

SpecEnd == InitEnd /\ [][NextEnd]_vars

\* ------------------------------------------------------------------------
\* validate_branches.py: which branches are closures and which branches
\* reach one along next links, over the committed branch document
\* ------------------------------------------------------------------------
\* the next links of a branch (lines 256-261): every rule that has the
\* key, whatever its value
NextBranches(br) ==
  IF br.hasEur
  THEN SelectSeq([j \in DOMAIN br.eur |-> br.eur[j][2].next], LAMBDA n : n # Absent)
  ELSE <<>>

\* identify_closure_branches (lines 167-202)
IdentifyClosureBranches(b) ==
  {n \in Keys(b) :
     \/ Get(b, n).action = "END_CALL"
     \/ Get(b, n).intent = "end_conversation"
     \/ NextBranches(Get(b, n)) = <<>>}

DfsClosure == [can |-> TRUE, loop |-> FALSE, loopPath |-> <<>>]
DfsLoop(loopPath) == [can |-> FALSE, loop |-> TRUE, loopPath |-> loopPath]
DfsDeadEnd == [can |-> FALSE, loop |-> FALSE, loopPath |-> <<>>]

\* can_reach_closure_dfs (lines 227-280); visited holds exactly the
\* entries of path, both grow on entry and shrink on return
RECURSIVE CanReachClosureDfs(_, _, _, _)
CanReachClosureDfs(cur, b, closures, path) ==
  IF cur \in closures THEN DfsClosure
  ELSE IF \E i \in DOMAIN path : path[i] = cur
  THEN DfsLoop(SubSeq(path, MinOf({i \in DOMAIN path : path[i] = cur}), Len(path)) \o <<cur>>)
  ELSE IF ~Has(b, cur) \/ NextBranches(Get(b, cur)) = <<>> THEN DfsDeadEnd
  ELSE LET nexts == NextBranches(Get(b, cur))
       IN IF \E i \in DOMAIN nexts :
               CanReachClosureDfs(nexts[i], b, closures, Append(path, cur)).can
          THEN DfsClosure
          ELSE DfsDeadEnd

\* lines 93-119 of analyze_branches: the branches reported as unable to
\* reach closure and those reported as potential infinite loops
AnalyzeBranches(b) ==
  LET closures == IdentifyClosureBranches(b)
      open == Keys(b) \ closures
      r == [n \in open |-> CanReachClosureDfs(n, b, closures, <<>>)]
  IN [cant |-> {n \in open : ~r[n].can /\ ~r[n].loop},
      loops |-> {<<n, r[n].loopPath>> : n \in {m \in open : ~r[m].can /\ r[m].loop}}]

\* a run of validate_branches.py on the branch document on disk; ok is
\* the absence of critical issues
Analyze ==
  /\ fileB.ok
  /\ LET a == AnalyzeBranches(fileB.doc) IN
     ret' = Ret("analyze_branches",
                /\ a.cant = {} /\ a.loops = {}
                /\ \A n \in Keys(fileB.doc) : DanglingRules(fileB.doc, Get(fileB.doc, n)) = {},
                0, Cardinality(a.cant) + Cardinality(a.loops),
                [all |-> FALSE, tried |-> <<a.cant, a.loops>>], FALSE)
  /\ UNCHANGED <<branches, suggestions, fileB, fileS, opBuf, committed, sessionVars>>

\* branch documents with a pair of branches that lead only to each other
BranchRebuttals ==
  Branch("rebut", "p_rebut", TRUE, << <<"insists", Rule("objection", "r_hear", <<>>)>> >>, Absent)
BranchObjection ==
  Branch("object", "p_object", TRUE,
         << <<"repeats", Rule("rebuttals", "r_again", <<>>)>>,
            <<"gives_in", Rule("policy_confirmation", "r_good", <<<<"f", "i", "n", "e">>>>)>> >>, Absent)
BranchObjectionStuck ==
  Branch("object", "p_object", TRUE, << <<"repeats", Rule("rebuttals", "r_again", <<>>)>> >>, Absent)

GraphLoopExit ==
  Graph0 \o << <<"rebuttals", BranchRebuttals>>, <<"objection", BranchObjection>> >>
GraphLoop ==
  Graph0 \o << <<"rebuttals", BranchRebuttals>>, <<"objection", BranchObjectionStuck>> >>

ReachDeleteArgs == {"closure", "policy_confirmation", "objection", "greeting"}

InitReach ==
  /\ fileB \in {Whole(Graph0), Whole(GraphLegacy), Whole(GraphLoopExit), Whole(GraphLoop)}
  /\ fileS = Whole(<<>>)
  /\ branches = LoadBranches(fileB)
  /\ suggestions = LoadSuggestions(fileS)
  /\ opBuf = <<>>
  /\ committed = branches
  /\ ret = Ret("init", TRUE, 0, 0, NoReport, FALSE)
  /\ session = NoSession
  /\ turn = NoTurn

NextReach ==
  \/ Len(suggestions) < MaxOps /\ \E n \in ReachDeleteArgs : ProposeDelete(n)
  \/ Apply(SelAll, FALSE)
  \/ Analyze

SpecReach == InitReach /\ [][NextReach]_vars

\* ------------------------------------------------------------------------
\* The store over a branch document that also holds the two keys that are
\* not branches: "_metadata" and "interruptible_intents"
\* (read_interruptible_intents, lines 788-795).  self.branches is the whole
\* document, so both are entries of it like any branch; neither has an
\* intent, a bot_prompt, expected_user_responses or an action.
\* ------------------------------------------------------------------------
ReservedKeys == {"_metadata", "interruptible_intents"}
ReservedEntry == Branch(Absent, Absent, FALSE, <<>>, Absent)

GraphReserved ==
  Graph0 \o << <<"_metadata", ReservedEntry>>, <<"interruptible_intents", ReservedEntry>> >>

ReservedCreateArgs ==
  { <<"help", "greet", "p_help", <<>>, TRUE, CwFromGreet>>,
    <<"_metadata", "meta", "p_meta", <<>>, TRUE, CwNone>> }

ReservedUpdateArgs ==
  { <<"_metadata", "meta", Absent, FALSE, <<>>, Absent, FALSE, <<>>>>,
    <<"policy_confirmation", "greet", Absent, FALSE, <<>>, Absent, TRUE, CwFromGreet>> }

ReservedDeleteArgs == {"interruptible_intents", "closure"}

InitReserved ==
  /\ fileB = Whole(GraphReserved)
  /\ fileS = Whole(<<>>)
  /\ branches = LoadBranches(fileB)
  /\ suggestions = LoadSuggestions(fileS)
  /\ opBuf = <<>>
  /\ committed = branches
  /\ ret = Ret("init", TRUE, 0, 0, NoReport, FALSE)
  /\ session = NoSession
  /\ turn = NoTurn

NextReserved ==
  \/ Len(suggestions) < MaxOps /\ \E a \in ReservedCreateArgs : ProposeCreate(a)
  \/ Len(suggestions) < MaxOps /\ \E a \in ReservedUpdateArgs : ProposeUpdate(a)
  \/ Len(suggestions) < MaxOps /\ \E n \in ReservedDeleteArgs : ProposeDelete(n)
  \/ Apply(SelAll, FALSE)

SpecReserved == InitReserved /\ [][NextReserved]_vars

\* ------------------------------------------------------------------------
\* Properties of the store
\* ------------------------------------------------------------------------
Range(q) == {q[k] : k \in 1..Len(q)}

\* the operations of log at the indices (from 0) that are not in ok
Unapplied(log, ok) ==
  LET keep == SelectSeq(Enumerate(Len(log)), LAMBDA i : i \notin Range(ok))
  IN [k \in 1..Len(keep) |-> log[keep[k] + 1]]

CreateOps == {Op("create", a[1], a[2], a[3], TRUE, a[4], Absent, a[5], a[6]) : a \in CreateArgs}

\* how often name occurs in the sequence q
Count(q, name) == Cardinality({k \in 1..Len(q) : q[k] = name})

\* C5: whatever index list apply_suggestions is called with, it returns and
\* the log it leaves is the previous log without the operations it applied,
\* the others in their order.
C5_LogKeepsUnapplied ==
  \A sel \in Selections, verbose \in BOOLEAN :
    LET r == ApplySuggestions(branches, suggestions, sel, verbose)
    IN ~r.raised /\ r.log = Unapplied(suggestions, r.okIdx)

\* C6: apply_suggestions, verbose or not, tries every selected in-range
\* operation, once per occurrence and in the order selected, whether or not
\* another operation fails or raises; applied + failed is the number tried.
C6_FailuresIsolated ==
  \A sel \in Selections, verbose \in BOOLEAN :
    LET r == ApplySuggestions(branches, suggestions, sel, verbose)
    IN /\ r.tried = OpsToApply(suggestions, sel)
       /\ r.applied + r.failed = Len(r.tried)
       /\ r.applied = Len(r.okIdx)
       /\ Len(r.report) = Len(r.tried)
       /\ \A k \in 1..Len(r.tried) :
            /\ r.report[k][1] = suggestions[r.tried[k] + 1].type
            /\ r.report[k][2] = suggestions[r.tried[k] + 1].name

\* C7: an operation of the log that is reported as failed leaves the graph
\* as it was before the operation was tried.
C7_FailedOperationLeavesGraph ==
  \A i \in 1..Len(suggestions) :
    LET r == ApplyOperation(branches, suggestions[i])
    IN ~r.ok => r.b = branches

C9_PreviewPredictsApply ==
  \A verbose \in BOOLEAN :
    LET p == PreviewSuggestionsEffect(branches, suggestions)
        r == ApplySuggestions(branches, suggestions, SelAll, verbose)
    IN \A i \in 1..Len(suggestions) :
         suggestions[i].type \in {"create", "update", "delete"} =>
         /\ p.verdict[i] = "conflict" <=> (i - 1) \notin Range(r.okIdx)
         /\ p.verdict[i] \in {"creates", "updates", "deletes"} <=> (i - 1) \in Range(r.okIdx)

\* C10: a create for a name the graph holds fails and changes nothing, and
\* applying a create a second time changes nothing the first left.
C10_CreateOfExistingFails ==
  \A op \in CreateOps \cup {o \in Range(suggestions) : o.type = "create"} :
    LET r1 == ApplyCreateOperation(branches, op)
        r2 == ApplyCreateOperation(r1.b, op)
    IN /\ Has(branches, op.name) => (~r1.ok /\ r1.b = branches)
       /\ ~r2.ok /\ r2.b = r1.b

\* one call of apply_suggestions has applied a create and then failed the
\* same create, and the branch is in the graph
C10_Witness ==
  /\ ret.op = "apply_suggestions"
  /\ \E i, j \in 1..Len(ret.report.tried) :
       /\ i < j
       /\ ret.report.tried[i][1] = "create" /\ ret.report.tried[i][3]
       /\ ret.report.tried[j] = <<"create", ret.report.tried[i][2], FALSE>>
       /\ Has(branches, ret.report.tried[i][2])

\* C2: the graph an agent gets when it reads branches.json is the graph
\* of before the batch the tool is committing or the graph of after it.
C2_ReadSeesWholeBatch ==
  ret.op = "load" => (branches = committed \/ branches = opBuf)

\* ------------------------------------------------------------------------
\* Properties of the conversation
\* ------------------------------------------------------------------------
\* C1: a step that is not apply_suggestions (a staging call, whatever it
\* returns, or a conversation turn, one ending in a branch suggestion
\* included) leaves the branches of the store and the branch document as
\* they were.
C1_OnlyApplyChangesGraph ==
  [][ret'.op # "apply_suggestions" => (branches' = branches /\ fileB' = fileB)]_vars

\* a turn has just staged the creation of greeting_handled; the graph is
\* the one the store was built with
C1_Witness ==
  /\ ret.op = "process_conversation_turn" /\ ret.ok
  /\ suggestions # <<>>
  /\ suggestions[Len(suggestions)].type = "create"
  /\ suggestions[Len(suggestions)].name = "greeting_handled"
  /\ branches = Graph0 /\ fileB = Whole(Graph0)

\* C3: when the turn before handled an interruption of a non-critical
\* intent that returns to the main flow, and this turn resolves it by a
\* follow-up rule whose action is return_to_main_flow, the session is back
\* on the stage the interruption was detected on and current_interruption
\* is gone.
C3_ResumesAtInterruptedStage ==
  [][(/\ turn.step = "interruption" /\ turn.path = "resume"
      /\ turn'.step = "followup"
      /\ turn'.path \in {"return_to_main_flow", "wildcard"})
     => (session'.stage = turn.stage0 /\ ~session'.ci.set)]_vars

\* an interruption on policy_confirmation was resolved by a keyworded
\* return_to_main_flow rule
C3_Witness ==
  /\ turn.step = "followup" /\ turn.path = "return_to_main_flow"
  /\ turn.stage0 = "policy_confirmation"
  /\ session.stage = "policy_confirmation"
  /\ session.returned /\ ~session.ci.set

\* C4: a turn that begins with current_interruption set ends with it
\* removed, whatever the utterance; when no rule decides, the stage is the
\* original_stage the interruption held.
C4_InterruptionEndsWithinOneTurn ==
  [][(turn'.tick # turn.tick /\ session.ci.set)
     => (/\ ~session'.ci.set
         /\ (turn'.path = "default" => session'.stage = session.ci.orig))]_vars

\* a follow-up no rule decided on, on policy_confirmation
C4_Witness ==
  /\ turn.step = "followup" /\ turn.path = "default"
  /\ turn.stage0 = "policy_confirmation"
  /\ session.stage = "policy_confirmation"
  /\ ~session.ci.set


\* ------------------------------------------------------------------------
\* Properties of the staging calls
\* ------------------------------------------------------------------------
\* what a staging call of the given type on the given name has to do when
\* refuse holds (nothing, returning False) and when it does not (one
\* operation of that type at the end, the others as they were)
StagedAsClaimed(type, name, refuse) ==
  IF refuse THEN ~ret'.ok /\ suggestions' = suggestions
  ELSE /\ Len(suggestions') = Len(suggestions) + 1
       /\ SubSeq(suggestions', 1, Len(suggestions)) = suggestions
       /\ suggestions'[Len(suggestions')].type = type
       /\ suggestions'[Len(suggestions')].name = name

\* C11: create_branch on a name the graph holds, and update_branch and
\* delete_branch on a name it does not hold, return False and leave the log
\* as it was; every other call appends exactly one operation of its type at
\* the end of the log and leaves the earlier entries in place.
C11_StagingAppendsOrRefuses ==
  [][/\ \A a \in CreateArgs :
          ProposeCreate(a) => StagedAsClaimed("create", a[1], Has(branches, a[1]))
     /\ \A a \in UpdateArgs :
          ProposeUpdate(a) => StagedAsClaimed("update", a[1], ~Has(branches, a[1]))
     /\ \A n \in DeleteArgs :
          ProposeDelete(n) => StagedAsClaimed("delete", n, ~Has(branches, n))]_vars

\* a create was staged behind two operations that are still pending
C11_Witness ==
  /\ ret.op = "create_branch" /\ ret.ok
  /\ Len(suggestions) = 3
  /\ suggestions[3].type = "create"
  /\ suggestions[1].type = "delete"
  /\ ~Has(branches, "closure")

\* ------------------------------------------------------------------------
\* Properties of apply_suggestions' order and report
\* ------------------------------------------------------------------------
\* C12: whatever index list apply_suggestions is called with, it applies
\* the operations in the order they have in the log: an operation at a
\* lower index is never applied after one at a higher index.
C12_AppliedInLogOrder ==
  \A sel \in Selections, verbose \in BOOLEAN :
    LET r == ApplySuggestions(branches, suggestions, sel, verbose)
    IN \A j, k \in 1..Len(r.tried) : j < k => r.tried[j] <= r.tried[k]

\* C13: the errors list apply_suggestions returns has at least as many
\* entries as the failed count it returns.
C13_EveryFailureHasAReason ==
  \A sel \in Selections, verbose \in BOOLEAN :
    LET r == ApplySuggestions(branches, suggestions, sel, verbose)
    IN r.nerr >= r.failed

\* ------------------------------------------------------------------------
\* Properties of the single operations
\* ------------------------------------------------------------------------
\* the delete operation delete_branch stages for the name
DeleteOp(name) == Op("delete", name, Absent, Absent, FALSE, <<>>, Absent, FALSE, <<>>)

\* the rule new is the rule old with a next of name replaced by None
Scrubbed(old, new, name) ==
  /\ new.next # name
  /\ new = IF old.next = name THEN [old EXCEPT !.next = Null] ELSE old

\* C14: applying the delete of a branch of the graph succeeds, takes the
\* branch out of the graph and leaves the other branches in place with their
\* fields; of their rules, those whose next was the deleted name have next
\* None and are otherwise as before, and the others are unchanged.
C14_DeleteScrubsReferences ==
  \A n \in Keys(branches) :
    LET r == ApplyDeleteOperation(branches, DeleteOp(n))
        rest == Del(branches, n)
    IN /\ r.ok
       /\ ~Has(r.b, n)
       /\ DOMAIN r.b = DOMAIN rest
       /\ \A i \in DOMAIN rest :
            LET old == rest[i][2]
                new == r.b[i][2]
            IN /\ r.b[i][1] = rest[i][1]
               /\ [new EXCEPT !.eur = old.eur] = old
               /\ DOMAIN new.eur = DOMAIN old.eur
               /\ \A j \in DOMAIN old.eur :
                    /\ new.eur[j][1] = old.eur[j][1]
                    /\ Scrubbed(old.eur[j][2], new.eur[j][2], n)

\* apply_suggestions deleted closure: greeting's rule "no", which led there,
\* has next None, and its rule "yes" still leads to policy_confirmation
C14_Witness ==
  /\ ret.op = "apply_suggestions"
  /\ \E k \in DOMAIN ret.report.tried : ret.report.tried[k] = <<"delete", "closure", TRUE>>
  /\ ~Has(branches, "closure")
  /\ Has(branches, "greeting")
  /\ Get(Get(branches, "greeting").eur, "no").next = Null
  /\ Get(Get(branches, "greeting").eur, "yes").next = "policy_confirmation"

\* ------------------------------------------------------------------------
\* Properties of the called_when rewrites and of validation
\* ------------------------------------------------------------------------
GraphCreateOps ==
  {Op("create", a[1], a[2], a[3], TRUE, a[4], Absent, a[5], a[6]) : a \in GraphCreateArgs}

\* the branch has a rule under the response key whose next is the name
LeadsTo(br, key, name) ==
  br.hasEur /\ Has(br.eur, key) /\ Get(br.eur, key).next = name

\* C15: applying a create of a new name N with a non-empty called_when
\* list leaves, on every branch of the graph whose intent is a
\* previous_intent of the list, a rule under the entry's previous_response
\* whose next is N.
C15_CreateRewritesEveryMatch ==
  \A op \in GraphCreateOps :
    (~Has(branches, op.name) /\ op.hasCw /\ op.cw # <<>>) =>
      LET r == ApplyCreateOperation(branches, op)
      IN \A k \in DOMAIN op.cw : \A i \in IntentHits(branches, op.cw[k].pi) :
           LeadsTo(Get(r.b, branches[i][1]), op.cw[k].pr, op.name)

\* C16: on one graph, with one called_when list and one target name, the
\* rewrite of an update (_update_previous_intents) and the rewrite of a
\* create (the loop of _apply_create_operation) leave the same graph.
C16_UpdateRewritesAsCreate ==
  \A cw \in {CwFromGreet, CwFromClose} : \A t \in Keys(branches) :
    UpdatePreviousIntents(branches, t, cw).b = CreateRewrite(branches, t, cw).b

\* the branch has its two required fields and each of its rules leads to a
\* branch of the graph or nowhere
WellFormed(b, name) ==
  LET br == Get(b, name)
  IN /\ br.intent # Absent
     /\ br.prompt # Absent
     /\ \A j \in DOMAIN br.eur :
          br.eur[j][2].next # Null => Has(b, br.eur[j][2].next)

C18_PreviewChangesNothing ==
  [][ret'.op = "preview" =>
       /\ branches' = branches /\ suggestions' = suggestions
       /\ fileB' = fileB /\ fileS' = fileS]_vars

\* a preview that listed something to apply, with the delete of closure
\* pending and closure still in the graph
C18_Witness ==
  /\ ret.op = "preview"
  /\ ret.applied >= 1
  /\ \E i \in DOMAIN suggestions :
       suggestions[i].type = "delete" /\ suggestions[i].name = "closure"
  /\ Has(branches, "closure")
  /\ branches = committed

\* ------------------------------------------------------------------------
\* Properties of the interruption slot
\* ------------------------------------------------------------------------
\* C19: a turn that begins with current_interruption set is resolved by
\* the follow-up step alone (lines 285-301 return before detection and
\* handle_interruption are reached), and no step replaces a
\* current_interruption that is set by another one: the recorded
\* original_stage stays until the interruption is cleared.
C19_NoNestedInterruption ==
  [][/\ (turn'.tick # turn.tick /\ session.ci.set) => turn'.step = "followup"
     /\ (session.ci.set /\ session'.ci.set) => session'.ci = session.ci
     /\ (turn'.tick # turn.tick /\ turn'.step = "interruption") => ~session.ci.set]_vars

\* the turn after an interruption went to the follow-up step and was
\* answered by the intent's wildcard rule; the interruption is closed
C19_Witness ==
  /\ turn.step = "followup" /\ turn.path = "wildcard"
  /\ ~session.ci.set
  /\ session.stage = turn.stage0

\* ------------------------------------------------------------------------
\* Properties of the matcher
\* ------------------------------------------------------------------------
\* the rule declares keywords, one of them is in the lowered utterance, and
\* no negation prefix followed by that keyword is
Hits(inp, rule) ==
  /\ rule.kw # <<>>
  /\ \E k \in DOMAIN rule.kw :
       /\ Contains(inp, Lower(rule.kw[k]))
       /\ \A p \in Range(NegationPrefixes) : ~Contains(inp, p \o Lower(rule.kw[k]))

\* C20: on every stage and utterance, when some keyworded rule of the
\* stage has a keyword in the utterance (case ignored) that is not negated,
\* the matcher returns matched with the type, response and next of the first
\* such rule in declaration order; when none has and the matcher still
\* returns matched, it is for the no-questions case of
\* policy_status_explanation or for a rule without keywords whose type names
\* a generic pattern the utterance holds; and 'Yes, speaking' on a stage with
\* the rule {keywords: [yes, speaking], next: policy_confirmation} gives
\* matched and next = policy_confirmation.
C20_KeywordedRuleFirst ==
  \A u \in MatchUtterances :
    LET eur == StageRules(branches, session.stage)
        inp == Lower(u)
        r == CheckIfResponseMatchesExpected(branches, u, session.stage)
        hits == {j \in DOMAIN eur : Hits(inp, eur[j][2])}
    IN /\ hits # {} =>
            \E j \in hits :
              /\ \A i \in hits : j <= i
              /\ r.matches /\ r.type = eur[j][1]
              /\ r.response = eur[j][2].response /\ r.next = eur[j][2].next
       /\ (hits = {} /\ r.matches) =>
            \/ /\ session.stage = "policy_status_explanation"
               /\ r.type = "wants_to_proceed"
               /\ ContainsAny(inp, NoQuestionsPatterns)
            \/ /\ Get(eur, r.type).kw = <<>>
               /\ r.type \in {"yes", "no"}
               /\ ContainsAny(inp, GenericPatterns(r.type))
               /\ r.next = Get(eur, r.type).next
       /\ (u = <<"Y", "e", "s", ",", " ", "s", "p", "e", "a", "k", "i", "n", "g">> /\ Has(eur, "yes")
           /\ Get(eur, "yes").kw = <<<<"y", "e", "s">>, <<"s", "p", "e", "a", "k", "i", "n", "g">>>>
           /\ Get(eur, "yes").next = "policy_confirmation") =>
            (r.matches /\ r.next = "policy_confirmation")

\* 'Yes, speaking' was matched on greeting: the rule "yes" with its
\* response, and next = policy_confirmation
C20_Witness ==
  /\ ret.op = "check_if_response_matches_expected"
  /\ session.stage = "greeting"
  /\ ret.ok
  /\ ret.report.tried = <<<<"Y", "e", "s", ",", " ", "s", "p", "e", "a", "k", "i", "n", "g">>, "yes", "r_ok", "policy_confirmation">>

\* C21: the matcher, given 'No, I don't have the policy bond' on a stage
\* with a rule whose only keyword is 'policy bond', does not return that
\* rule.
C21_NegatedKeywordDoesNotMatch ==
  (/\ ret.op = "check_if_response_matches_expected"
   /\ ret.report.tried[1] = <<"N", "o", ",", " ", "I", " ", "d", "o", "n", "'", "t", " ", "h", "a", "v", "e", " ", "t", "h", "e", " ", "p", "o", "l", "i", "c", "y", " ", "b", "o", "n", "d">>
   /\ ret.ok)
    => Get(StageRules(branches, session.stage), ret.report.tried[2]).kw
         # <<<<"p", "o", "l", "i", "c", "y", " ", "b", "o", "n", "d">>>>

\* ------------------------------------------------------------------------
\* Properties of the interruption detector
\* ------------------------------------------------------------------------
\* the intents that admit the stage, and the weighted score of one
Admitting(stage) ==
  {j \in DOMAIN Intents :
     Intents[j][2].stages = <<"*">> \/ stage \in Range(Intents[j][2].stages)}
WeightedScore(u, j) ==
  (KeywordConfidence(Strip(Lower(u)), Intents[j][2].kw)
     * PriorityWeight(Intents[j][2].priority)) \div 10

\* C22: a call of detect leaves the session, the graph and the log as they
\* were; the confidence it returns is the highest weighted score among the
\* intents that admit the stage (0 when none scores); the intent it returns
\* is one that admits the stage and has that score (none when the score is
\* 0); and it reports an interruption exactly when that confidence is at
\* least the threshold.
C22_DetectReturnsBestAdmitted ==
  [][(ret'.op = "detect_interruption" /\ ret' # ret) =>
       LET u == ret'.report.tried[1]
           intent == ret'.report.tried[2]
           conf == ret'.report.tried[3]
           A == Admitting(session.stage)
       IN /\ UNCHANGED <<branches, suggestions, session, fileB, fileS>>
          /\ \A j \in A : WeightedScore(u, j) <= conf
          /\ IF conf = 0 THEN intent = Null
             ELSE \E j \in A : Intents[j][1] = intent /\ WeightedScore(u, j) = conf
          /\ ret'.ok <=> conf >= ret'.report.tried[4]]_vars

\* detect was called on greeting with an utterance that holds the keyword of
\* an intent greeting does not admit and one of an intent it admits: the
\* admitted one came back
C22_Witness ==
  /\ ret.op = "detect_interruption"
  /\ session.stage = "greeting"
  /\ ret.report.tried[1] = <<"o", "t", "h", "e", "r", " ", "p", "o", "l", "i", "c", "i", "e", "s", " ", "a", "g", "a", "i", "n">>
  /\ ret.report.tried[2] = "repeat_request"
  /\ ret.ok

\* ------------------------------------------------------------------------
\* Properties of the turn controller
\* ------------------------------------------------------------------------
\* the utterance holds a response word and a question word
Compound(u) ==
  ContainsAny(Lower(u), ResponseWords) /\ ContainsAny(Lower(u), QuestionWords)

\* the keyword confidence, before the priority weight, of the intent
\* detect returns
RawScore(u, stage) ==
  LET d == DetectInterruption(u, stage, 400000) IN
  IF d.intent = Null THEN 0
  ELSE KeywordConfidence(Strip(Lower(u)), Get(Intents, d.intent).kw)

\* a turn that reaches the detection step: no interruption is open and the
\* session does not carry returned_from_interruption
ReachesDetection == ~session.ci.set /\ ~session.returned /\ ~CallbackPending(session)

\* C23: a turn that reaches detection with a compound utterance is handled
\* as an interruption when the unweighted score is at least 0.3, and is not
\* when the unweighted score is below 0.3 and detect itself reports no
\* interruption at threshold 0.4.
C23_CompoundOverrideOnRawScore ==
  [][\A i \in DialogInputs :
       (Turn(i[1], i[2]) /\ ReachesDetection /\ Compound(i[1])) =>
         /\ RawScore(i[1], session.stage) >= 300000 => turn'.step = "interruption"
         /\ (/\ RawScore(i[1], session.stage) < 300000
             /\ ~DetectInterruption(i[1], session.stage, 400000).is)
              => turn'.step # "interruption"]_vars

\* the actions of an intent that change the flow for good
JumpActions ==
  {"jump_to_payment_flow", "jump_to_verification", "escalate_to_complaint_handling"}

\* C24: when a turn handles an interruption whose intent has a jump or
\* escalate action, handle returns should-resume false, the session after
\* the turn holds neither current_interruption nor interruption_context, and
\* its stage is the intent's target_stage (complaint_handling for escalate);
\* and a turn that starts with no interruption in the session is never
\* resolved by the follow-up step.
C24_JumpIsIrreversible ==
  [][/\ (turn'.tick # turn.tick /\ turn'.step = "interruption"
         /\ Has(Intents, turn'.via)
         /\ Get(Intents, turn'.via).action \in JumpActions) =>
          LET it == Get(Intents, turn'.via) IN
          /\ ~HandleInterruption(turn'.via, session.stage, session).resume
          /\ ~session'.ci.set /\ ~session'.ctx.set
          /\ session'.stage = IF it.action = "escalate_to_complaint_handling"
                              THEN "complaint_handling" ELSE it.target
     /\ (turn'.tick # turn.tick /\ ~session.ci.set) => turn'.step # "followup"]_vars

\* the turn after a jump to verify_payment was processed, and not by the
\* follow-up step
C24_Witness ==
  /\ turn.stage0 = "verify_payment"
  /\ turn.step \in {"match", "analysis", "interruption"}

\* the action of the intent a turn handled, Null when it handled none
ActionOf(name) == IF Has(Intents, name) THEN Get(Intents, name).action ELSE Null

\* C25: when a turn handles an interruption whose intent has the
\* schedule_callback action, handle returns should-resume false, the session
\* after the turn awaits a callback time, holds current_interruption with
\* original_stage the stage the turn began on, and is on that same stage;
\* and the turn after it is resolved by the follow-up step.
C25_CallbackWaitsForFollowUp ==
  [][/\ (turn'.tick # turn.tick /\ turn'.step = "interruption"
         /\ ActionOf(turn'.via) = "schedule_callback") =>
          /\ ~HandleInterruption(turn'.via, session.stage, session).resume
          /\ session'.awaiting
          /\ session'.ci = Interruption(turn'.via, session.stage)
          /\ session'.stage = session.stage
     /\ (turn'.tick # turn.tick /\ turn.step = "interruption"
         /\ ActionOf(turn.via) = "schedule_callback") =>
          /\ turn'.step = "followup"
          /\ turn'.path \in {"end_conversation", "next", "default"}]_vars

\* after 'busy' on policy_confirmation the customer gave a time: the turn
\* was resolved by the follow-up rule provides_time
C25_Witness ==
  /\ turn.step = "followup" /\ turn.path = "end_conversation"
  /\ turn.stage0 = "policy_confirmation"
  /\ session.cbScheduled /\ session.awaiting

\* C26: the turn that handles a repeat_last_response interruption leaves
\* the stage as it was, and the turn after it is not resolved by the
\* follow-up step.
C26_RepeatIsImmediatelyResumable ==
  [][/\ (turn'.tick # turn.tick /\ turn'.step = "interruption"
         /\ ActionOf(turn'.via) = "repeat_last_response") =>
          session'.stage = session.stage
     /\ (turn'.tick # turn.tick /\ turn.step = "interruption"
         /\ ActionOf(turn.via) = "repeat_last_response") =>
          turn'.step # "followup"]_vars

\* C27: a turn that handles a non-critical interruption and resumes the main
\* flow leaves the session on payment_followup when the intent is a
\* payment-commitment intent, and on the stage it began on when the intent
\* is outside the known combinations.
C27_CommitmentResumesAtPaymentFollowup ==
  [][(turn'.tick # turn.tick /\ turn'.step = "interruption" /\ turn'.path = "resume") =>
       IF turn'.via \in {"renewal_commitment_interrupt", "early_payment_decision"}
       THEN session'.stage = "payment_followup"
       ELSE turn'.via \notin {"ask_about_other_policies", "ambiguous_response_clarification"}
              => session'.stage = session.stage]_vars

\* C28: a turn that starts with returned_from_interruption set and no
\* interruption open ends with the flag cleared; when the utterance matches
\* the expected responses of the stage, the turn is resolved by the match
\* step; when it does not, the turn is resolved by the re-prompt and the
\* stage stays.
C28_PostInterruptionTurn ==
  [][(session.returned /\ ~session.ci.set /\ turn'.tick # turn.tick) =>
       /\ ~session'.returned
       /\ \A i \in DialogInputs :
            Turn(i[1], i[2]) =>
              IF CheckIfResponseMatchesExpected(branches, i[1], session.stage).matches
              THEN turn'.step = "match"
              ELSE turn'.step = "clarification" /\ session'.stage = session.stage]_vars

\* C29: a turn resolved by the match of a rule that has a next and no
\* scripted response leaves the session on that rule's next.
C29_UnscriptedMatchForcesNext ==
  [][(turn'.tick # turn.tick /\ turn'.step = "match" /\ turn'.path = "generated"
      /\ ~Falsy(Get(StageRules(branches, session.stage), turn'.via).next)) =>
       session'.stage = Get(StageRules(branches, session.stage), turn'.via).next]_vars

\* C30: a turn resolved by the analysis step, for which
\* find_appropriate_existing_branch returns a branch with confidence at
\* least 0.2, leaves the session on that branch and the suggestion log as it
\* was.
C30_RedirectAppendsNothing ==
  [][(turn'.tick # turn.tick /\ turn'.step = "analysis") =>
       \A i \in DialogInputs :
         Turn(i[1], i[2]) =>
           LET f == FindAppropriateExistingBranch(branches, i[1], session.stage) IN
           (f.branch # Null /\ f.conf >= 200000) =>
             (session'.stage = f.branch /\ suggestions' = suggestions)]_vars

\* ---- C31 ----

\* C31: a turn whose generator call failed (send_to_gemini returned its
\* fixed apology, a reply without a metadata block) raises nothing, appends
\* no suggestion, asks for no stage change and leaves the stage and the
\* interruption state as they were, and the session goes on
C31_GeneratorFailureContained ==
  [][(turn'.tick # turn.tick /\ turn'.gen = GenSilent)
     => /\ ~ret'.raised
        /\ ~ret'.ok
        /\ suggestions' = suggestions
        /\ fileS' = fileS
        /\ session'.stage = session.stage
        /\ session'.ci = session.ci
        /\ session'.ctx = session.ctx
        /\ session'.awaiting = session.awaiting
        /\ session'.running]_vars

\* a turn went to the suggestion step, the generator failed, and the
\* session is still on the stage it was on with nothing in the log
C31_Witness ==
  /\ turn.path = "suggest"
  /\ turn.gen = GenSilent
  /\ session.running
  /\ session.stage = turn.stage0
  /\ suggestions = <<>>

\* ---- C32 ----
\* a branch of the graph that carries a terminal action
Terminal(b, stage) == Has(b, stage) /\ ~Falsy(Get(b, stage).action)

\* C32: after a turn the loop has ended the session exactly when the stage
\* the turn left is a branch that carries a terminal action: it takes no
\* further utterance on such a branch, and it ends on no other branch
C32_SessionEndsOnTerminalBranch ==
  (turn.step # "none") => (session.running <=> ~Terminal(committed, session.stage))

\* ---- C33 ----
\* C33: find_appropriate_existing_branch returns either no branch with
\* confidence 0, or a branch other than the current stage that the
\* committed graph holds, with a confidence of at least 0.1
C33_RedirectCandidateExists ==
  (ret.op = "find_appropriate_existing_branch")
  => IF ret.report.tried[2] = Null
     THEN ret.report.tried[3] = 0
     ELSE /\ ret.report.tried[2] # session.stage
          /\ Has(committed, ret.report.tried[2])
          /\ ret.report.tried[3] >= Unit \div 10

\* ---- C34 ----
\* C34: the matcher's steps are tried in the order keyworded rules, generic
\* patterns, stage-specific special cases: when no keyworded rule is hit
\* and a rule without keywords is hit by a generic pattern of its type,
\* the result is the first such rule, whatever special case the stage has
C34_SpecialCaseAfterGeneric ==
  (ret.op = "check_if_response_matches_expected")
  => LET eur == StageRules(committed, session.stage)
         inp == Lower(ret.report.tried[1])
         keyed == {j \in DOMAIN eur : Hits(inp, eur[j][2])}
         generic == {j \in DOMAIN eur :
                       /\ eur[j][2].kw = <<>>
                       /\ ContainsAny(inp, GenericPatterns(eur[j][1]))}
     IN (keyed = {} /\ generic # {})
        => /\ ret.ok
           /\ ret.report.tried[2] = eur[MinOf(generic)][1]
           /\ ret.report.tried[4] = eur[MinOf(generic)][2].next

\* ---- C35 ----
\* the branches of b that the next links of n name
Successors(b, n) ==
  {m \in Keys(b) : \E j \in DOMAIN NextBranches(Get(b, n)) : NextBranches(Get(b, n))[j] = m}

\* the branches from which a branch of S is reached along next links, by
\* a search of at most k rounds
RECURSIVE Ancestors(_, _, _)
Ancestors(b, S, k) ==
  IF k = 0 THEN S
  ELSE Ancestors(b, S \cup {n \in Keys(b) : Successors(b, n) \cap S # {}}, k - 1)

\* the branches reached from n along one or more next links
RECURSIVE Descendants(_, _, _)
Descendants(b, S, k) ==
  IF k = 0 THEN S
  ELSE Descendants(b, S \cup UNION {Successors(b, n) : n \in S}, k - 1)

\* the next links of n lead onto a cycle
LeadsAroundCycle(b, n) ==
  \E m \in Descendants(b, Successors(b, n), Len(b)) \cup {n} :
    m \in Descendants(b, Successors(b, m), Len(b))

\* C35: the reachability check reports a branch that is not a closure as
\* unable to reach closure exactly when no path of next links from it ends
\* in a closure branch, and a branch that cannot reach closure and whose
\* links lead around a cycle is reported among the potential infinite loops
C35_ReachabilityReport ==
  (ret.op = "analyze_branches")
  => LET b == fileB.doc
         closures == IdentifyClosureBranches(b)
         reach == Ancestors(b, closures, Len(b))
         cant == ret.report.tried[1]
         loops == {p[1] : p \in ret.report.tried[2]}
     IN \A n \in Keys(b) \ closures :
          /\ (n \in cant \cup loops) <=> (n \notin reach)
          /\ (n \notin reach /\ LeadsAroundCycle(b, n)) => n \in loops

\* ---- C36 ----
\* C36: after every turn, with the controller's update written to the
\* session, the stage of the session names a branch of the committed graph
C36_StageNamesCommittedBranch ==
  (turn.step # "none") => Has(committed, session.stage)

\* ---- C37 ----
\* C37: whenever the session holds no current interruption it holds no
\* interruption context and no awaiting-callback-time mark either
C37_InterruptionStateClearedWhole ==
  ~session.ci.set => (~session.ctx.set /\ ~session.awaiting)

\* ---- C38 ----
\* C38: with the agent and the apply tool each on a store of its own over
\* the same two documents, a staging call of the agent leaves the
\* persisted suggestion log as it found it with the new operation at its
\* end: it writes back no operation a commit has removed and drops none
C38_AppliedOperationStaysRemoved ==
  [][(ret'.op \in {"create_branch", "delete_branch"} /\ ret'.ok)
     => /\ fileS'.ok /\ fileS.ok
        /\ Len(fileS'.doc) = Len(fileS.doc) + 1
        /\ SubSeq(fileS'.doc, 1, Len(fileS.doc)) = fileS.doc]_vars

\* ---- C39 ----
\* C39: a turn of a session whose resumed callback is not confirmed is
\* resolved by the callback confirmation and by nothing else: the stage,
\* the current interruption and the suggestion log stay as they were, the
\* callback is confirmed exactly when the utterance holds an affirmative
\* token, and otherwise the session is still waiting for the confirmation
C39_CallbackConfirmationFirst ==
  [][(turn'.tick # turn.tick /\ CallbackPending(session))
     => /\ turn'.step = "callback"
        /\ session'.stage = session.stage
        /\ session'.ci = session.ci
        /\ session'.ctx = session.ctx
        /\ suggestions' = suggestions
        /\ fileS' = fileS
        /\ \A i \in TurnInputs :
             Turn(i[1], i[2])
             => (session'.cbConfirmed <=> ContainsAny(Lower(i[1]), CallbackAffirmative))
        /\ ~session'.cbConfirmed => CallbackPending(session')]_vars

\* the callback was answered without an affirmative token: the turn was
\* resolved by the confirmation step and the session still waits for it
C39_Witness ==
  /\ turn.step = "callback"
  /\ CallbackPending(session)
  /\ session.stage = turn.stage0

\* ---- C40 ----
\* C40: whatever is proposed and applied, the two reserved keys of the
\* branch document stay in it with the entries they had, in the store and
\* in the document on disk
C40_ReservedKeysUntouched ==
  \A k \in ReservedKeys :
    /\ Has(branches, k) /\ Get(branches, k) = ReservedEntry
    /\ fileB.ok => (Has(fileB.doc, k) /\ Get(fileB.doc, k) = ReservedEntry)
====
